---- MODULE Spec2Model ----
(***************************************************************************)
(* Motion-control core of the Wheelly robot (src/Arduino/Wheelly):         *)
(* MotionCtrl with its two Timers, the MotionSensor odometry, the two      *)
(* MotorSensor encoders (Speedometer + LowPassFilter) and the two          *)
(* MotorCtrl outputs, driven by a cooperative polling loop.                *)
(*                                                                         *)
(* Numbers.  The C++ floats are modelled in fixed point:                   *)
(*   - unit quantities (speeds, powers, fuzzy weights) in 1/ONE,           *)
(*   - pulses per second in 1/MILLI,                                       *)
(*   - angles in 1/100 degree, so that PI is 18000,                        *)
(*   - lengths (TRACK, WHEEL_DIAMETER) in millimetres,                     *)
(*   - time in milliseconds, as millis() gives it.                         *)
(* unsigned long arithmetic is taken modulo ClockModulus.                  *)
(***************************************************************************)
EXTENDS Integers, Sequences, FiniteSets, TLC

(* ------------------------------ bounds -------------------------------- *)

\* last clock value the polling loop is followed to
MaxClock == 1350
\* number of move() calls followed
MaxMoves == 2
\* number of encoder edges followed (both wheels together)
MaxEdges == 2
\* a Timer on its own: milliseconds followed, and the longest gap between
\* two calls
MaxSpent == 12
MaxDelay == 4
\* firing polls of that Timer followed after one start()
MaxFires == 5
\* a MotorSensor on its own: last clock value followed, and encoder edges
\* followed
MaxEncClock == 510
MaxPulses == 5
\* the functions on their own: quarter turns the angles given to normalRad
\* go up to, either way
MaxQuarters == 10
\* an AsyncSerial on its own: characters Serial holds at most, and newlines
\* received in all
MaxRx == 2
MaxNewlines == 1

(* --------------------------- fixed point ------------------------------ *)

ONE == 10^4
MILLI == 10^3
\* range of unsigned long, scaled to what the model's integers hold
ClockModulus == 2^12

U32(n) == n % ClockModulus

\* quotient of the float division, rounded toward zero
Quot(a, b) ==
  IF b > 0
  THEN (IF a >= 0 THEN a \div b ELSE -((-a) \div b))
  ELSE (IF a >= 0 THEN -(a \div (-b)) ELSE (-a) \div (-b))

\* product of two unit quantities
Mul(a, b) == Quot(a * b, ONE)

Abs(a) == IF a < 0 THEN -a ELSE a
Max(a, b) == IF a > b THEN a ELSE b
Min(a, b) == IF a < b THEN a ELSE b

(* ---------------------------- constants ------------------------------- *)

PI == 180 * 100
MAX_VALUE == 255
MOTOR_SAFE_INTERVAL == 1000
MOTOR_CHECK_INTERVAL == 300
\* a turn counted as full only at a half turn
ON_DIRECTION_HALF_TURN == PI
ON_DIRECTION_RAD == (90 * PI) \div 180
LINEAR_DIRECTION_RAD == (30 * PI) \div 180
FEEDBACK_GAIN == 2
TRACK == 136
PULSES_PER_ROOT == 40
WHEEL_DIAMETER == 67
MAX_PPS == 60
NO_POINTS == 5
SPEED_BUFFER_SIZE == 4
STOP_TIME == 500
\* milliseconds between two turns of the polling loop
ClockStep == MOTOR_CHECK_INTERVAL \div 2
\* 1 / FILTER_DECAY
FILTER_TIME == 300
\* DISTANCE_PER_PULSE / TRACK, as an angle
ANGLE_PER_PULSE == (WHEEL_DIAMETER * PI) \div (PULSES_PER_ROOT * TRACK)

leftXCorrection == << -ONE, -606, 0, 231, ONE >>
leftYCorrection == << -ONE, -3043, 0, 1258, ONE >>
rightXCorrection == << -ONE, -376, 0, 204, ONE >>
rightYCorrection == << -ONE, -2667, 0, 1265, ONE >>

(* ------------------------------ Utils --------------------------------- *)

\* one adjustment by a full turn, and no more
normalRadOnce(rad) ==
  IF rad < -PI THEN rad + PI * 2
  ELSE IF rad >= PI THEN rad - PI * 2
  ELSE rad

RECURSIVE normalRad(_)
normalRad(rad) ==
  IF rad < -PI THEN normalRad(rad + PI * 2)
  ELSE IF rad >= PI THEN normalRad(rad - PI * 2)
  ELSE rad

\* sinf, by Bhaskara's rational approximation on [0, PI]
SinPos(a) ==
  LET p == (a * (PI - a)) \div MILLI
      d == ((5 * PI * PI) \div 4) \div MILLI
  IN Quot(4 * p * MILLI, d - p) * (ONE \div MILLI)

sinf(a) ==
  LET r == normalRad(a)
  IN IF r >= 0 THEN SinPos(r) ELSE -SinPos(-r)

cosf(a) == sinf(a + PI \div 2)

(* ------------------------------ Fuzzy --------------------------------- *)

\* fuzzyPositive() taking the size of the value
fuzzyPositiveOfSize(value, range) == Min(Max(Quot(Abs(value) * ONE, range), 0), ONE)

fuzzyPositive(value, range) == Min(Max(Quot(value * ONE, range), 0), ONE)

FuzzyNew == [sum |-> 0, scale |-> 0]

FuzzyAdd(f, value, weight) ==
  [sum |-> f.sum + Mul(value, weight), scale |-> f.scale + weight]

FuzzyReset(f) == [sum |-> 0, scale |-> 0]

\* the float division by a zero _scale gives no number
NaN == ONE * ONE

defuzzy(f) == IF f.scale = 0 THEN NaN ELSE Quot(f.sum * ONE, f.scale)

(* ------------------------------ Timer --------------------------------- *)

\* a Timer as constructed
TimerNew(interval, continuous) ==
  [running |-> FALSE, next |-> 0, counter |-> 0,
   interval |-> interval, continuous |-> continuous]

TimerStartAt(t, timeout) ==
  [t EXCEPT !.counter = 0, !.next = timeout, !.running = TRUE]

\* start() taking the interval for the deadline
TimerStartNoClock(t, millis) == TimerStartAt(t, t.interval)

TimerStart(t, millis) == TimerStartAt(t, U32(millis + t.interval))

\* stop() flipping _running
TimerStopToggle(t) == [t EXCEPT !.running = ~@]

TimerStop(t) == [t EXCEPT !.running = FALSE]

\* restart() leaving the deadline as it is
TimerRestartNothing(t, millis) == t

TimerRestart(t, millis) ==
  IF t.running THEN [t EXCEPT !.next = U32(millis + t.interval)] ELSE t

\* the condition under which polling(clockTime) calls _onNext
TimerExpired(t, clockTime) == t.running /\ clockTime >= t.next

\* a continuous timer taking its next deadline from the clock
TimerFireFromNow(t, clockTime) ==
  IF ~t.continuous
  THEN [t EXCEPT !.counter = U32(@ + 1), !.running = FALSE]
  ELSE [t EXCEPT !.counter = U32(@ + 1), !.next = U32(clockTime + t.interval)]

\* a one-shot timer left running by the polling() that fires
TimerFireNoStop(t, clockTime) ==
  IF ~t.continuous
  THEN [t EXCEPT !.counter = U32(@ + 1)]
  ELSE [t EXCEPT !.counter = U32(@ + 1), !.next = U32(@ + t.interval)]

\* a continuous timer taking the first deadline after the clock, the late
\* ones left out
TimerFireSkipLate(t, clockTime) ==
  IF ~t.continuous
  THEN [t EXCEPT !.counter = U32(@ + 1), !.running = FALSE]
  ELSE [t EXCEPT !.counter = U32(@ + 1),
                 !.next = U32(@ + t.interval * ((clockTime - @) \div t.interval + 1))]

\* the timer's own state change in a polling(clockTime) that fires, before
\* _onNext is called
TimerFire(t, clockTime) ==
  IF ~t.continuous
  THEN TimerStop([t EXCEPT !.counter = U32(@ + 1)])
  ELSE [t EXCEPT !.counter = U32(@ + 1), !.next = U32(@ + t.interval)]

\* _onNext handed the counter after the increment
TimerOnNextArgUpdated(t) == U32(t.counter + 1)

\* the counter a firing polling() hands to _onNext: the value _counter had
\* before the increment
TimerOnNextArg(t) == t.counter

\* the call of _onNext by a polling(clockTime) that fires: the counter it is
\* given and the Timer it finds
TimerOnNextCall(t, clockTime) ==
  [counter |-> TimerOnNextArg(t), timer |-> TimerFire(t, clockTime)]

\* polling(clockTime) whose _onNext calls start() at millis, the callback
\* called before the timer's own state change
TimerPollingStartingFirst(t, clockTime, millis) ==
  IF TimerExpired(t, clockTime)
  THEN TimerFire(TimerStart(t, millis), clockTime)
  ELSE t

\* polling(clockTime) whose _onNext calls start() at millis, as SR04::_send
\* does
TimerPollingStarting(t, clockTime, millis) ==
  IF TimerExpired(t, clockTime)
  THEN TimerStart(TimerFire(t, clockTime), millis)
  ELSE t

(* ---------------------------- MotorCtrl ------------------------------- *)

\* the segment index func() interpolates on (1-based: segment i joins
\* points i and i+1); the scan looks at points 2 .. NO_POINTS - 2 only
FuncSegment(xx, x) ==
  IF \E j \in 2..(NO_POINTS - 2) : x < xx[j]
  THEN (CHOOSE j \in 2..(NO_POINTS - 2) :
          /\ x < xx[j]
          /\ \A k \in 2..(j - 1) : ~(x < xx[k])) - 1
  ELSE NO_POINTS - 1

func(xx, yy, x) ==
  LET i == FuncSegment(xx, x)
      result == Quot((x - xx[i]) * (yy[i + 1] - yy[i]), xx[i + 1] - xx[i]) + yy[i]
  IN Min(Max(-ONE, result), ONE)

\* the table << _x, _y >> a motor has after setCorrection(x, y) on one that
\* had the table old: the arguments, whatever they are
setCorrection(old, x, y) == << x, y >>

\* Arduino's round(): half away from zero
Round(v) ==
  IF v >= 0 THEN (v + ONE \div 2) \div ONE ELSE -((-v + ONE \div 2) \div ONE)

\* the two PWM pins after speed(value); pwr keeps the value speed() was given
MotorSpeed(xx, yy, value) ==
  LET pwd == func(xx, yy, value)
  IN IF value = 0 THEN [forw |-> 0, back |-> 0, pwr |-> value]
     ELSE IF value > 0
          THEN [forw |-> Round(pwd * MAX_VALUE), back |-> 0, pwr |-> value]
          ELSE [forw |-> 0, back |-> -Round(pwd * MAX_VALUE), pwr |-> value]

(* ------------------- Speedometer and LowPassFilter -------------------- *)

SpeedometerReset(millis) == [pps |-> 0, prevTime |-> millis]

SpeedometerForward(sp, clockTime) ==
  LET dt == U32(clockTime - sp.prevTime)
  IN IF dt > 0
     THEN [pps |-> Quot(1000 * MILLI, dt), prevTime |-> clockTime]
     ELSE sp

SpeedometerBackward(sp, clockTime) ==
  LET dt == U32(clockTime - sp.prevTime)
  IN IF dt > 0
     THEN [pps |-> Quot(-1000 * MILLI, dt), prevTime |-> clockTime]
     ELSE sp

SpeedometerPps(sp, clockTime) ==
  LET dt == U32(clockTime - sp.prevTime)
  IN IF dt > 0 /\ sp.pps # 0
     THEN LET pps == Quot((IF sp.pps < 0 THEN -1000 ELSE 1000) * MILLI, dt)
          IN IF Abs(pps) <= Abs(sp.pps) THEN pps ELSE sp.pps
     ELSE sp.pps

FilterReset(clockTime) == [value |-> 0, prevTime |-> clockTime]

FilterValue(f, value, clockTime) ==
  LET alpha == Min(Quot(U32(clockTime - f.prevTime) * MILLI, FILTER_TIME), MILLI)
      v1 == Quot(f.value * (MILLI - alpha), MILLI) + Quot(value * alpha, MILLI)
      v2 == v1 + Quot((value - v1) * alpha, MILLI)
  IN [value |-> v2, prevTime |-> clockTime]

(* ---------------- MotorSensor (of MotionSensor.cpp) ------------------- *)

MotorSensorReset(ms, millis) ==
  [ms EXCEPT !.forward = TRUE, !.pulses = 0,
             !.speedometer = SpeedometerReset(millis),
             !.filter = FilterReset(millis)]

\* setDirection() taking every speed for a forward one
MotorSensorSetDirectionForward(ms, speed, millis) == [ms EXCEPT !.forward = TRUE]

MotorSensorSetDirection(ms, speed, millis) ==
  IF speed > 0 THEN [ms EXCEPT !.forward = TRUE]
  ELSE IF speed < 0 THEN [ms EXCEPT !.forward = FALSE]
  ELSE [ms EXCEPT !.speedometer = SpeedometerReset(millis),
                  !.filter = FilterReset(millis)]

\* the delta polling() computes from the level digitalRead() gives
MotorSensorDPulse(ms, pulse) ==
  IF pulse # ms.pulse THEN (IF ms.forward THEN 1 ELSE -1) ELSE 0

MotorSensorUpdate(ms, dPulse, clockTime) ==
  [ms EXCEPT !.pulses = @ + dPulse,
             !.speedometer = IF dPulse < 0 THEN SpeedometerBackward(@, clockTime)
                             ELSE IF dPulse > 0 THEN SpeedometerForward(@, clockTime)
                             ELSE @]

MotorSensorPolling(ms, pulse, clockTime) ==
  LET dPulse == MotorSensorDPulse(ms, pulse)
      m1 == [ms EXCEPT !.pulse = pulse]
      m2 == IF dPulse # 0 THEN MotorSensorUpdate(m1, dPulse, clockTime) ELSE m1
  IN [m2 EXCEPT !.filter = FilterValue(@, SpeedometerPps(m2.speedometer, clockTime), clockTime)]

(* ------------- MotorSensor with the sample buffer (MotorSensor.cpp) --- *)

\* what a float division by zero leaves: no finite number
Div(a, b) == IF b = 0 THEN NaN ELSE Quot(a, b)

\* the object after the constructor and begin(); only _forward and
\* _prevTime are set by them
EncoderNew(pulse, millis) ==
  [pulse |-> pulse, pulses |-> 0, forward |-> TRUE, prevTime |-> millis,
   index |-> 0, noSamples |-> 0,
   timestamp |-> [i \in 0..(SPEED_BUFFER_SIZE - 1) |-> 0],
   pulsesBuf |-> [i \in 0..(SPEED_BUFFER_SIZE - 1) |-> 0]]

EncoderReset(e, millis) ==
  [e EXCEPT !.forward = TRUE, !.pulses = 0, !.noSamples = 0, !.index = 0,
            !.prevTime = millis]

EncoderSetDirection(e, speed) ==
  IF speed > 0 THEN [e EXCEPT !.forward = TRUE]
  ELSE IF speed < 0 THEN [e EXCEPT !.forward = FALSE]
  ELSE e

\* a delta that takes every edge for a forward one
EncoderDPulseForward(e, pulse) == IF pulse # e.pulse THEN 1 ELSE 0

\* the delta polling() computes from the level digitalRead() gives
EncoderDPulse(e, pulse) ==
  IF pulse # e.pulse THEN (IF e.forward THEN 1 ELSE -1) ELSE 0

\* update() writing every sample to the slot of the one before
EncoderUpdateSameSlot(e, dPulse, clockTime) ==
  LET pulses == e.pulses + dPulse
  IN [e EXCEPT !.pulses = pulses,
               !.timestamp[e.index] = clockTime,
               !.pulsesBuf[e.index] = pulses,
               !.noSamples = IF @ < SPEED_BUFFER_SIZE THEN @ + 1 ELSE @]

\* update(), up to the call of _onSample
EncoderUpdate(e, dPulse, clockTime) ==
  LET pulses == e.pulses + dPulse
      index == e.index + 1
  IN [e EXCEPT !.pulses = pulses,
               !.timestamp[e.index] = clockTime,
               !.pulsesBuf[e.index] = pulses,
               !.index = IF index >= SPEED_BUFFER_SIZE THEN 0 ELSE index,
               !.noSamples = IF @ < SPEED_BUFFER_SIZE THEN @ + 1 ELSE @]

\* the arguments update() hands to _onSample
EncoderOnSampleArgs(dPulse, clockTime) == [delta |-> dPulse, t |-> clockTime]

EncoderPolling(e, pulse, clockTime) ==
  LET dPulse == EncoderDPulse(e, pulse)
      e1 == [e EXCEPT !.pulse = pulse]
      dt == U32(clockTime - e.prevTime)
  IN IF dPulse # 0 THEN EncoderUpdate(e1, dPulse, clockTime)
     ELSE IF dt > STOP_TIME
          THEN [e1 EXCEPT !.noSamples = 0, !.index = 0, !.prevTime = clockTime]
          ELSE e1

\* a newest slot taken to be the slot at _index
EncoderLastIsIndex(e) == e.index

\* the slot frequency() reads the newest sample from
EncoderLast(e) == (e.index + SPEED_BUFFER_SIZE - 1) % SPEED_BUFFER_SIZE

\* frequency(), in 1/MILLI pulses per second
EncoderFrequency(e) ==
  IF e.noSamples < SPEED_BUFFER_SIZE THEN 0
  ELSE LET last == EncoderLast(e)
           dp == e.pulsesBuf[last] - e.pulsesBuf[e.index]
           dt == U32(e.timestamp[last] - e.timestamp[e.index])
       IN Div(dp * 1000 * MILLI, dt)

(* ----------------------------- AsyncSerial ----------------------------- *)

\* the size of AsyncSerial::_inputString
BUFFER_SIZE == 63

NEWLINE == "\n"
NUL == "NUL"

\* the characters Serial.read() returns: the newline and any other
SerialChars == {"c", NEWLINE}

\* what the write of _inputString[BUFFER_SIZE] does: the array has BUFFER_SIZE
\* elements and _timing is the member declared after it, so the byte written
\* is the first of _timing or one the object does not use
BeyondOutcomes == {"timing", "unused"}

\* an AsyncSerial of static storage: the constructor sets no member.
\* inputString holds the characters written since the last polling() that
\* delivered a line, inputString[i + 1] being _inputString[i]; nul is the
\* index of the NUL written after them, -1 when there is none or when a later
\* character has been written over it; timing tells whether _timing holds the
\* time of the line's first character.
AsyncSerialNew ==
  [noChars |-> 0, stringComplete |-> FALSE, inputString |-> << >>,
   nul |-> -1, timing |-> "unset"]

\* a write of the character c at _inputString[i]
SerialWrite(i, c) == [i |-> i, c |-> c]

\* AsyncSerial::serialEvent(): the loop, with the characters Serial holds, the
\* writes made so far and what a write beyond the array does
RECURSIVE SerialEventLoop(_, _, _, _)
SerialEventLoop(A, available, writes, beyond) ==
  IF available = << >> \/ ~(A.noChars < BUFFER_SIZE)
  THEN [serial |-> A, available |-> available, writes |-> writes]
  ELSE LET inChar == Head(available)
           n == A.noChars + 1
           B == [A EXCEPT !.timing = IF A.noChars = 0 THEN "set" ELSE @,
                          !.inputString = Append(@, inChar),
                          !.nul = IF @ = A.noChars THEN -1 ELSE @,
                          !.noChars = n]
           W == Append(writes, SerialWrite(A.noChars, inChar))
       IN IF inChar = NEWLINE \/ n >= BUFFER_SIZE
          THEN [serial |-> [B EXCEPT !.stringComplete = TRUE,
                                     !.nul = n,
                                     !.timing = IF n >= BUFFER_SIZE
                                                   /\ beyond = "timing"
                                                THEN "overwritten" ELSE @],
                available |-> Tail(available),
                writes |-> Append(W, SerialWrite(n, NUL))]
          ELSE SerialEventLoop(B, Tail(available), W, beyond)

serialEvent(A, available, beyond) ==
  SerialEventLoop(A, available, << >>, beyond)

\* the calls of _onData AsyncSerial::polling() makes: the characters of
\* _inputString before the NUL, whether the NUL is in the array right after
\* the characters written, and _timing
AsyncSerialOnData(A) ==
  IF A.stringComplete
  THEN << [data |-> A.inputString,
           terminated |-> A.nul = A.noChars /\ A.nul < BUFFER_SIZE,
           timing |-> A.timing] >>
  ELSE << >>

\* AsyncSerial::polling()
AsyncSerialPolling(A) ==
  IF A.stringComplete
  THEN [A EXCEPT !.noChars = 0, !.stringComplete = FALSE,
                 !.inputString = << >>, !.nul = -1]
  ELSE A

(* ------------------------------ state --------------------------------- *)

VARIABLES
  clock,        \* millis()
  ctrl,         \* MotionCtrl: _halt, _speed, _direction, _left, _right, _prevTime
  stopTimer,    \* MotionCtrl::_stopTimer
  checkTimer,   \* MotionCtrl::_checkTimer
  leftMotor,    \* MotionCtrl::_leftMotor: the two PWM pins
  rightMotor,   \* MotionCtrl::_rightMotor
  leftSensor,   \* MotionSensor::_leftSensor
  rightSensor,  \* MotionSensor::_rightSensor
  sensors,      \* MotionSensor: _angle, _xPulses, _yPulses, _dl, _dr
  trace,        \* what the last call did, in order
  op,           \* the last call, its arguments and the state it was made in
  hist,         \* when move() was last called, when it last left Halted, and
                \* whether the last move() was made while Halted
  moves,        \* move() calls made
  edges         \* encoder edges seen

ctrlVars == << clock, ctrl, stopTimer, checkTimer, leftMotor, rightMotor,
               leftSensor, rightSensor, sensors, trace, op, hist, moves, edges >>

\* a Timer on its own, with a caller that starts, stops, restarts and polls it
VARIABLES
  tm,           \* the Timer: _running, _next, _counter, _interval, _continuous
  tmClock,      \* millis()
  tmSpent,      \* milliseconds gone by
  tmStart,      \* millis() at the last start() or restart() that set _next
  tmFires,      \* polling() calls that fired since the last start()
  tmPlain,      \* no stop() and no restart() since the last start()
  tmOp          \* the last call, the Timer it was made on, and its callbacks

timerVars == << tm, tmClock, tmSpent, tmStart, tmFires, tmPlain, tmOp >>

\* a MotorSensor (of MotorSensor.cpp) on its own, with a caller that sets its
\* direction, resets it and polls it
VARIABLES
  enc,          \* the MotorSensor
  encClock,     \* millis()
  encHist,      \* the samples update() recorded since the last reset()
  encCleared,   \* how many of them came before the last clearing by polling()
  encEdges,     \* forward and backward edges since the last reset(), edges and
                \* reset() calls in all
  encOp         \* the last call, the MotorSensor it was made on, its callbacks

encVars == << enc, encClock, encHist, encCleared, encEdges, encOp >>

\* one function on its own, applied to one input
VARIABLES
  calcIn,       \* the function and its arguments
  calcOut,      \* what it returned or left behind
  calcDone      \* it has been applied

calcVars == << calcIn, calcOut, calcDone >>

\* an AsyncSerial on its own, with a Serial that receives characters and a
\* caller of serialEvent() and polling()
VARIABLES
  ser,          \* the AsyncSerial
  serRx,        \* the characters Serial has received and not yet returned
  serNewlines,  \* newlines received
  serOp         \* the last call, the AsyncSerial it was made on, its writes
                \* to _inputString and its callbacks

serVars == << ser, serRx, serNewlines, serOp >>

vars == << ctrlVars, timerVars, encVars, calcVars, serVars >>

\* the program state as one value, for the operators below
Cur ==
  [clock |-> clock, ctrl |-> ctrl, stopTimer |-> stopTimer,
   checkTimer |-> checkTimer, leftMotor |-> leftMotor,
   rightMotor |-> rightMotor, leftSensor |-> leftSensor,
   rightSensor |-> rightSensor, sensors |-> sensors, trace |-> << >>]

Log(S, e, a) == [S EXCEPT !.trace = Append(@, [e |-> e, a |-> a])]

(* ---------------------------- MotionCtrl ------------------------------ *)

\* one wheel of power() with the result not held to [-1, 1]
WheelPowerNoClamp(cmd, pps) ==
  IF cmd # 0
  THEN LET measured == Quot(pps * (ONE \div MILLI), MAX_PPS)
       IN cmd + (cmd - measured) * FEEDBACK_GAIN
  ELSE 0

\* one wheel of power() with the feedback applied to a command of 0 too
WheelPowerAlwaysFeedback(cmd, pps) ==
  LET measured == Quot(pps * (ONE \div MILLI), MAX_PPS)
  IN Min(Max(cmd + (cmd - measured) * FEEDBACK_GAIN, -ONE), ONE)

\* one wheel of power(): the feedback is left out when the command is 0
WheelPower(cmd, pps) ==
  IF cmd # 0
  THEN LET measured == Quot(pps * (ONE \div MILLI), MAX_PPS)
       IN Min(Max(cmd + (cmd - measured) * FEEDBACK_GAIN, -ONE), ONE)
  ELSE 0

Power(S, left, right) ==
  LET leftPwr == WheelPower(left, S.leftSensor.filter.value)
      rightPwr == WheelPower(right, S.rightSensor.filter.value)
  IN Log([S EXCEPT !.ctrl.left = left, !.ctrl.right = right,
                   !.leftMotor = MotorSpeed(leftXCorrection, leftYCorrection, leftPwr),
                   !.rightMotor = MotorSpeed(rightXCorrection, rightYCorrection, rightPwr),
                   !.leftSensor = MotorSensorSetDirection(@, leftPwr, S.clock),
                   !.rightSensor = MotorSensorSetDirection(@, rightPwr, S.clock)],
         "power", 0)

\* the locals of handleMotion() for heading dir and target (toDir, speed);
\* cwScale and linScale are the _scale of fuzzy at its two defuzzy() calls,
\* leftSum and rightSum are left and right before the division by mx
ControlStep(dir, toDir, speed) ==
  LET turn == normalRad(toDir - dir)
      isCw == fuzzyPositive(turn, ON_DIRECTION_RAD)
      isCcw == fuzzyPositive(-turn, ON_DIRECTION_RAD)
      isLin == ONE - fuzzyPositive(Abs(turn), LINEAR_DIRECTION_RAD)
      cwFuzzy == FuzzyAdd(FuzzyAdd(FuzzyAdd(FuzzyNew, ONE, isCw), -ONE, isCcw),
                          0, ONE - Max(isCw, isCcw))
      cwSpeed == defuzzy(cwFuzzy)
      linFuzzy == FuzzyAdd(FuzzyAdd(FuzzyReset(cwFuzzy), speed, isLin), 0, ONE - isLin)
      linSpeed == defuzzy(linFuzzy)
      left == linSpeed + cwSpeed
      right == linSpeed - cwSpeed
      mx == Max(Max(Abs(left), Abs(right)), ONE)
  IN [turn |-> turn, isCw |-> isCw, isCcw |-> isCcw, isLin |-> isLin,
      cwScale |-> cwFuzzy.scale, linScale |-> linFuzzy.scale,
      cwSpeed |-> cwSpeed, linSpeed |-> linSpeed,
      leftSum |-> left, rightSum |-> right, mx |-> mx,
      left |-> Quot(left * ONE, mx), right |-> Quot(right * ONE, mx)]

\* the commands handleMotion() computes for heading dir and target (toDir, speed)
ControlLaw(dir, toDir, speed) ==
  LET step == ControlStep(dir, toDir, speed)
  IN [left |-> step.left, right |-> step.right]

\* handleMotion() without the test of _halt
HandleMotionGuardNoHalt(S, clockTime) == U32(clockTime - S.ctrl.prevTime) > 0

HandleMotionGuard(S, clockTime) ==
  ~S.ctrl.halt /\ U32(clockTime - S.ctrl.prevTime) > 0

HandleMotion(S, clockTime) ==
  IF HandleMotionGuard(S, clockTime)
  THEN LET cmd == ControlLaw(S.sensors.angle, S.ctrl.direction, S.ctrl.speed)
       IN Power(Log(S, "step", S.sensors.angle), cmd.left, cmd.right)
  ELSE Log(S, "skip", 0)

\* halt() without _checkTimer.stop()
HaltKeepsCheckTimer(S) ==
  LET s1 == Power([S EXCEPT !.ctrl.speed = 0, !.ctrl.halt = TRUE], 0, 0)
  IN [s1 EXCEPT !.stopTimer = TimerStop(@)]

Halt(S) ==
  LET s1 == Power([S EXCEPT !.ctrl.speed = 0, !.ctrl.halt = TRUE], 0, 0)
  IN [s1 EXCEPT !.stopTimer = TimerStop(@), !.checkTimer = TimerStop(@)]

\* move() starting the watchdog only when it leaves Halted
MoveWatchdogOnly(S, direction, speed) ==
  LET s1 == [S EXCEPT !.ctrl.direction = direction, !.ctrl.speed = speed]
  IN IF s1.ctrl.halt
     THEN [s1 EXCEPT !.ctrl.halt = FALSE,
                     !.stopTimer = TimerStart(@, S.clock)]
     ELSE HandleMotion([s1 EXCEPT !.stopTimer = TimerRestart(@, S.clock)], S.clock)

\* move() running the control step when it leaves Halted too
MoveStepsAtOnce(S, direction, speed) ==
  LET s1 == [S EXCEPT !.ctrl.direction = direction, !.ctrl.speed = speed]
  IN IF s1.ctrl.halt
     THEN HandleMotion([s1 EXCEPT !.ctrl.halt = FALSE,
                                  !.stopTimer = TimerStart(@, S.clock),
                                  !.checkTimer = TimerStart(@, S.clock)], S.clock)
     ELSE HandleMotion([s1 EXCEPT !.stopTimer = TimerRestart(@, S.clock)], S.clock)

Move(S, direction, speed) ==
  LET s1 == [S EXCEPT !.ctrl.direction = direction, !.ctrl.speed = speed]
  IN IF s1.ctrl.halt
     THEN [s1 EXCEPT !.ctrl.halt = FALSE,
                     !.stopTimer = TimerStart(@, S.clock),
                     !.checkTimer = TimerStart(@, S.clock)]
     ELSE HandleMotion([s1 EXCEPT !.stopTimer = TimerRestart(@, S.clock)], S.clock)

(* --------------------------- MotionSensor ----------------------------- *)

MotionSensorReset(S) ==
  [S EXCEPT !.leftSensor = MotorSensorReset(@, S.clock),
            !.rightSensor = MotorSensorReset(@, S.clock),
            !.sensors.xPulses = 0, !.sensors.yPulses = 0, !.sensors.angle = 0]

\* update() turning the heading before it steps along it
MotionSensorUpdateTurnFirst(S, clockTime) ==
  LET m == S.sensors
      angle == normalRad(m.angle + (m.dl - m.dr) * ANGLE_PER_PULSE)
      ds == ((m.dl + m.dr) * ONE) \div 2
      s1 == [S EXCEPT !.sensors.xPulses = @ + Mul(cosf(angle), ds),
                      !.sensors.yPulses = @ + Mul(sinf(angle), ds),
                      !.sensors.angle = angle]
  IN HandleMotion(Log(s1, "update", s1.sensors.angle), clockTime)

\* update() leaving the heading as the sum gives it
MotionSensorUpdateNoNormal(S, clockTime) ==
  LET m == S.sensors
      ds == ((m.dl + m.dr) * ONE) \div 2
      s1 == [S EXCEPT !.sensors.xPulses = @ + Mul(cosf(m.angle), ds),
                      !.sensors.yPulses = @ + Mul(sinf(m.angle), ds),
                      !.sensors.angle = @ + (m.dl - m.dr) * ANGLE_PER_PULSE]
  IN HandleMotion(Log(s1, "update", s1.sensors.angle), clockTime)

MotionSensorUpdate(S, clockTime) ==
  LET m == S.sensors
      sa == sinf(m.angle)
      ca == cosf(m.angle)
      ds == ((m.dl + m.dr) * ONE) \div 2
      s1 == [S EXCEPT !.sensors.xPulses = @ + Mul(ca, ds),
                      !.sensors.yPulses = @ + Mul(sa, ds),
                      !.sensors.angle = normalRad(@ + (m.dl - m.dr) * ANGLE_PER_PULSE)]
  IN HandleMotion(Log(s1, "update", s1.sensors.angle), clockTime)

\* polling() without `_dl = _dr = 0`: a wheel with no edge keeps the delta
\* of an earlier call
MotionSensorPollingStale(S, clockTime, pl, pr) ==
  LET dl == MotorSensorDPulse(S.leftSensor, pl)
      dr == MotorSensorDPulse(S.rightSensor, pr)
      s1 == [S EXCEPT !.leftSensor = MotorSensorPolling(@, pl, clockTime),
                      !.rightSensor = MotorSensorPolling(@, pr, clockTime),
                      !.sensors.dl = IF dl # 0 THEN dl ELSE @,
                      !.sensors.dr = IF dr # 0 THEN dr ELSE @]
  IN IF s1.sensors.dl # 0 \/ s1.sensors.dr # 0
     THEN MotionSensorUpdate(s1, clockTime) ELSE s1

\* _dl and _dr are zeroed, then set by the two sensors' _onSample callbacks
\* to the deltas of this call
MotionSensorPolling(S, clockTime, pl, pr) ==
  LET dl == MotorSensorDPulse(S.leftSensor, pl)
      dr == MotorSensorDPulse(S.rightSensor, pr)
      s1 == [S EXCEPT !.leftSensor = MotorSensorPolling(@, pl, clockTime),
                      !.rightSensor = MotorSensorPolling(@, pr, clockTime),
                      !.sensors.dl = dl, !.sensors.dr = dr]
  IN IF dl # 0 \/ dr # 0 THEN MotionSensorUpdate(s1, clockTime) ELSE s1

(* ----------------------- MotionCtrl::polling -------------------------- *)

\* a _stopTimer callback that does nothing
StopTimerOnNextNothing(S) == S

\* the callback the constructor gives _stopTimer
StopTimerOnNext(S) == Halt(S)

\* the callback the constructor gives _checkTimer
CheckTimerOnNext(S) == HandleMotion(S, S.clock)

\* _stopTimer.polling(clockTime)
StopTimerPolling(S, clockTime) ==
  IF TimerExpired(S.stopTimer, clockTime)
  THEN StopTimerOnNext(Log([S EXCEPT !.stopTimer = TimerFire(@, clockTime)],
                           "stopTimer", 0))
  ELSE S

\* _checkTimer.polling(clockTime)
CheckTimerPolling(S, clockTime) ==
  IF TimerExpired(S.checkTimer, clockTime)
  THEN CheckTimerOnNext(Log([S EXCEPT !.checkTimer = TimerFire(@, clockTime)],
                            "checkTimer", 0))
  ELSE S

\* polling() polling the timers before the sensors
PollingOrderTimersFirst == << "stopTimer", "checkTimer", "sensors" >>

\* the order in which polling() polls its three parts
PollingOrder == << "sensors", "stopTimer", "checkTimer" >>

PollingPart(S, part, clockTime, pl, pr) ==
  CASE part = "sensors" -> MotionSensorPolling(S, clockTime, pl, pr)
    [] part = "stopTimer" -> StopTimerPolling(S, clockTime)
    [] part = "checkTimer" -> CheckTimerPolling(S, clockTime)

Polling(S, clockTime, pl, pr) ==
  LET s1 == PollingPart(S, PollingOrder[1], clockTime, pl, pr)
      s2 == PollingPart(s1, PollingOrder[2], clockTime, pl, pr)
  IN PollingPart(s2, PollingOrder[3], clockTime, pl, pr)

(* ------------------------------ actions -------------------------------- *)

\* values an unset unsigned long may hold
PrevTimeValues == {0, 2 * MOTOR_CHECK_INTERVAL}
\* the targets move() is called with
Targets == { << 0, ONE >>, << PI \div 2, -(ONE \div 2) >> }

NewSensor(pulse) ==
  [pulse |-> pulse, pulses |-> 0, forward |-> TRUE,
   speedometer |-> SpeedometerReset(0), filter |-> FilterReset(0)]

\* the state the constructor leaves, before begin()
Constructed(prevTime, pl, pr) ==
  [clock |-> 0,
   ctrl |-> [halt |-> FALSE, speed |-> 0, direction |-> 0, left |-> 0,
             right |-> 0, prevTime |-> prevTime],
   stopTimer |-> TimerNew(MOTOR_SAFE_INTERVAL, FALSE),
   checkTimer |-> TimerNew(MOTOR_CHECK_INTERVAL, TRUE),
   leftMotor |-> [forw |-> 0, back |-> 0, pwr |-> 0],
   rightMotor |-> [forw |-> 0, back |-> 0, pwr |-> 0],
   leftSensor |-> NewSensor(pl), rightSensor |-> NewSensor(pr),
   sensors |-> [angle |-> 0, xPulses |-> 0, yPulses |-> 0, dl |-> 0, dr |-> 0],
   trace |-> << >>]

\* begin(): the motors and sensors begin, then halt()
Begin(S) == Halt(S)

Commit(S) ==
  /\ clock' = S.clock
  /\ ctrl' = S.ctrl
  /\ stopTimer' = S.stopTimer
  /\ checkTimer' = S.checkTimer
  /\ leftMotor' = S.leftMotor
  /\ rightMotor' = S.rightMotor
  /\ leftSensor' = S.leftSensor
  /\ rightSensor' = S.rightSensor
  /\ sensors' = S.sensors
  /\ trace' = S.trace

Called(name, arg) ==
  [name |-> name, arg |-> arg, halt |-> ctrl.halt, clock |-> clock]

\* a call on the Timer: its name, the Timer and millis() before it, and the
\* calls of _onNext it made
TimerCalled(name, t, millis, calls) ==
  [name |-> name, pre |-> t, clock |-> millis, calls |-> calls]

\* the Timer variables while the controller runs
TimerParked ==
  /\ tm = TimerNew(0, FALSE)
  /\ tmClock = 0
  /\ tmSpent = 0
  /\ tmStart = 0
  /\ tmFires = 0
  /\ tmPlain = FALSE
  /\ tmOp = TimerCalled("new", TimerNew(0, FALSE), 0, << >>)

\* a call on the MotorSensor: its name, the MotorSensor and millis() before
\* it, the level read, and the arguments _onSample was called with
EncoderCalled(name, e, millis, level, calls) ==
  [name |-> name, pre |-> e, clock |-> millis, level |-> level, calls |-> calls]

\* the MotorSensor variables while the controller or the Timer runs
EncoderParked ==
  /\ enc = EncoderNew(0, 0)
  /\ encClock = 0
  /\ encHist = << >>
  /\ encCleared = 0
  /\ encEdges = [forward |-> 0, backward |-> 0, all |-> 0, resets |-> 0]
  /\ encOp = EncoderCalled("new", enc, 0, 0, << >>)

\* the variables of a function on its own while something else runs
CalcParked ==
  /\ calcIn = [f |-> "none"]
  /\ calcOut = 0
  /\ calcDone = FALSE

\* a call on the AsyncSerial: its name, the AsyncSerial before it, the writes
\* to _inputString it made and the calls of _onData it made
SerialCalled(name, A, writes, calls) ==
  [name |-> name, pre |-> A, writes |-> writes, calls |-> calls]

\* the AsyncSerial variables while something else runs
SerialParked ==
  /\ ser = AsyncSerialNew
  /\ serRx = << >>
  /\ serNewlines = 0
  /\ serOp = SerialCalled("new", AsyncSerialNew, << >>, << >>)

\* the controller variables while the Timer or the MotorSensor runs
CtrlParked ==
  LET S == MotionSensorReset(Begin(Constructed(0, 0, 0)))
  IN /\ clock = S.clock
     /\ ctrl = S.ctrl
     /\ stopTimer = S.stopTimer
     /\ checkTimer = S.checkTimer
     /\ leftMotor = S.leftMotor
     /\ rightMotor = S.rightMotor
     /\ leftSensor = S.leftSensor
     /\ rightSensor = S.rightSensor
     /\ sensors = S.sensors
     /\ trace = << >>
     /\ op = [name |-> "begin", arg |-> << 0, 0 >>, halt |-> FALSE, clock |-> 0]
     /\ hist = [lastMove |-> 0, moveStart |-> 0, fromHalted |-> FALSE]
     /\ moves = 0
     /\ edges = 0

\* after the constructor, begin() and reset().  The constructor sets neither
\* _prevTime nor the sensors' _pulse; a first level read that differs from
\* _pulse is an edge whatever _pulse held.
CtrlInit ==
  \E prevTime \in PrevTimeValues :
    LET S == MotionSensorReset(Begin(Constructed(prevTime, 0, 0)))
    IN /\ clock = S.clock
       /\ ctrl = S.ctrl
       /\ stopTimer = S.stopTimer
       /\ checkTimer = S.checkTimer
       /\ leftMotor = S.leftMotor
       /\ rightMotor = S.rightMotor
       /\ leftSensor = S.leftSensor
       /\ rightSensor = S.rightSensor
       /\ sensors = S.sensors
       /\ trace = << >>
       /\ op = [name |-> "begin", arg |-> << 0, 0 >>, halt |-> FALSE, clock |-> 0]
       /\ hist = [lastMove |-> 0, moveStart |-> 0, fromHalted |-> FALSE]
       /\ moves = 0
       /\ edges = 0

Init ==
  CtrlInit /\ TimerParked /\ EncoderParked /\ CalcParked /\ SerialParked

MoveOp ==
  /\ moves < MaxMoves
  /\ clock + MOTOR_SAFE_INTERVAL + ClockStep <= MaxClock
  /\ \E target \in Targets :
       /\ Commit(Move(Cur, target[1], target[2]))
       /\ op' = Called("move", target)
  /\ hist' = [lastMove |-> clock,
              moveStart |-> IF ctrl.halt THEN clock ELSE hist.moveStart,
              fromHalted |-> ctrl.halt]
  /\ moves' = moves + 1
  /\ UNCHANGED << edges, timerVars, encVars, calcVars, serVars >>

HaltOp ==
  /\ Commit(Halt(Cur))
  /\ op' = Called("halt", << 0, 0 >>)
  /\ UNCHANGED << hist, moves, edges, timerVars, encVars, calcVars, serVars >>

\* one turn of the loop: millis() has advanced, and polling(millis()) runs
\* with the levels pl, pr on the two sensor pins
PollingOp ==
  /\ clock + ClockStep <= MaxClock
  /\ \E pl \in {0, 1}, pr \in {0, 1} :
       LET n == (IF pl # leftSensor.pulse THEN 1 ELSE 0)
                + (IF pr # rightSensor.pulse THEN 1 ELSE 0)
           now == clock + ClockStep
       IN /\ edges + n <= MaxEdges
          /\ edges' = edges + n
          /\ Commit(Polling([Cur EXCEPT !.clock = now], now, pl, pr))
  /\ op' = Called("polling", << 0, 0 >>)
  /\ UNCHANGED << hist, moves, timerVars, encVars, calcVars, serVars >>

Next == MoveOp \/ HaltOp \/ PollingOp

Spec == Init /\ [][Next]_vars

\* one turn of the loop, as the clock shows it: the steps of Next that are
\* LoopTurn steps are the PollingOp steps
LoopTurn == clock + ClockStep <= MaxClock /\ clock' = clock + ClockStep

\* the loop never stops turning
LiveSpec == Spec /\ WF_clock(LoopTurn)

(* ------------------------- a Timer on its own -------------------------- *)

Intervals == {2, 5}
\* millis() when the caller begins: early, and shortly before it wraps
ClockStarts == {0, ClockModulus - 7}

TimerInit ==
  /\ \E prevTime \in {0} :
       LET S == MotionSensorReset(Begin(Constructed(prevTime, 0, 0)))
       IN /\ clock = S.clock
          /\ ctrl = S.ctrl
          /\ stopTimer = S.stopTimer
          /\ checkTimer = S.checkTimer
          /\ leftMotor = S.leftMotor
          /\ rightMotor = S.rightMotor
          /\ leftSensor = S.leftSensor
          /\ rightSensor = S.rightSensor
          /\ sensors = S.sensors
  /\ trace = << >>
  /\ op = [name |-> "begin", arg |-> << 0, 0 >>, halt |-> FALSE, clock |-> 0]
  /\ hist = [lastMove |-> 0, moveStart |-> 0, fromHalted |-> FALSE]
  /\ moves = 0
  /\ edges = 0
  /\ \E interval \in Intervals, continuous \in BOOLEAN :
       tm = TimerNew(interval, continuous)
  /\ tmClock \in ClockStarts
  /\ tmSpent = 0
  /\ tmStart = 0
  /\ tmFires = 0
  /\ tmPlain = FALSE
  /\ tmOp = TimerCalled("new", tm, tmClock, << >>)
  /\ EncoderParked
  /\ CalcParked
  /\ SerialParked

\* millis() advances between two calls
TmTick ==
  /\ \E d \in 1..MaxDelay :
       /\ tmSpent + d <= MaxSpent
       /\ tmSpent' = tmSpent + d
       /\ tmClock' = U32(tmClock + d)
  /\ UNCHANGED << tm, tmStart, tmFires, tmPlain, tmOp, ctrlVars, encVars, calcVars, serVars >>

\* start()
TmStart ==
  /\ tm' = TimerStart(tm, tmClock)
  /\ tmStart' = tmClock
  /\ tmFires' = 0
  /\ tmPlain' = TRUE
  /\ tmOp' = TimerCalled("start", tm, tmClock, << >>)
  /\ UNCHANGED << tmClock, tmSpent, ctrlVars, encVars, calcVars, serVars >>

\* stop()
TmStop ==
  /\ tm' = TimerStop(tm)
  /\ tmPlain' = FALSE
  /\ tmOp' = TimerCalled("stop", tm, tmClock, << >>)
  /\ UNCHANGED << tmClock, tmSpent, tmStart, tmFires, ctrlVars, encVars, calcVars, serVars >>

\* restart()
TmRestart ==
  /\ tm' = TimerRestart(tm, tmClock)
  /\ tmStart' = IF tm.running THEN tmClock ELSE tmStart
  /\ tmPlain' = FALSE
  /\ tmOp' = TimerCalled("restart", tm, tmClock, << >>)
  /\ UNCHANGED << tmClock, tmSpent, tmFires, ctrlVars, encVars, calcVars, serVars >>

\* polling(millis()), with a callback that touches nothing
TmPolling ==
  /\ IF TimerExpired(tm, tmClock)
     THEN /\ tmFires < MaxFires
          /\ tm' = TimerFire(tm, tmClock)
          /\ tmFires' = tmFires + 1
          /\ tmOp' = TimerCalled("polling", tm, tmClock,
                                 << TimerOnNextCall(tm, tmClock) >>)
     ELSE /\ UNCHANGED << tm, tmFires >>
          /\ tmOp' = TimerCalled("polling", tm, tmClock, << >>)
  /\ UNCHANGED << tmClock, tmSpent, tmStart, tmPlain, ctrlVars, encVars, calcVars, serVars >>

\* milliseconds a callback may take before it calls start()
CallbackDelays == {0, 1}

\* polling(millis()), with a callback that calls start() as SR04::_send does
TmPollingStart ==
  /\ IF TimerExpired(tm, tmClock)
     THEN \E d \in CallbackDelays :
            /\ tmSpent + d <= MaxSpent
            /\ tmSpent' = tmSpent + d
            /\ tmClock' = U32(tmClock + d)
            /\ tm' = TimerPollingStarting(tm, tmClock, tmClock')
            /\ tmStart' = tmClock'
            /\ tmFires' = 0
            /\ tmPlain' = TRUE
            /\ tmOp' = TimerCalled("pollingStart", tm, tmClock,
                                   << TimerOnNextCall(tm, tmClock) >>)
     ELSE /\ tm' = TimerPollingStarting(tm, tmClock, tmClock)
          /\ tmOp' = TimerCalled("pollingStart", tm, tmClock, << >>)
          /\ UNCHANGED << tmClock, tmSpent, tmStart, tmFires, tmPlain >>
  /\ UNCHANGED << ctrlVars, encVars, calcVars, serVars >>

TimerNext ==
  TmTick \/ TmStart \/ TmStop \/ TmRestart \/ TmPolling \/ TmPollingStart

TimerSpec == TimerInit /\ [][TimerNext]_vars

(* ---------------------- a MotorSensor on its own ----------------------- *)

\* milliseconds between two calls: one is less than STOP_TIME, two are more
EncoderDelays == {STOP_TIME \div 2 + 1}

\* after the constructor, begin() and reset(); the constructor does not set
\* _pulse
EncoderInit ==
  /\ CtrlParked
  /\ TimerParked
  /\ CalcParked
  /\ SerialParked
  /\ \E pulse \in {0, 1} : enc = EncoderReset(EncoderNew(pulse, 0), 0)
  /\ encClock = 0
  /\ encHist = << >>
  /\ encCleared = 0
  /\ encEdges = [forward |-> 0, backward |-> 0, all |-> 0, resets |-> 0]
  /\ encOp = EncoderCalled("reset", enc, 0, 0, << >>)

\* millis() advances between two calls
EncTick ==
  /\ \E d \in EncoderDelays :
       /\ encClock + d <= MaxEncClock
       /\ encClock' = encClock + d
  /\ UNCHANGED << enc, encHist, encCleared, encEdges, encOp, ctrlVars, timerVars, calcVars, serVars >>

\* setDirection(speed)
EncSetDirection ==
  /\ \E speed \in {-ONE, ONE} :
       /\ enc' = EncoderSetDirection(enc, speed)
       /\ encOp' = EncoderCalled("setDirection", enc, encClock, speed, << >>)
  /\ UNCHANGED << encClock, encHist, encCleared, encEdges, ctrlVars, timerVars, calcVars, serVars >>

\* reset(), once something has been recorded
EncReset ==
  /\ encHist # << >>
  /\ enc' = EncoderReset(enc, encClock)
  /\ encHist' = << >>
  /\ encCleared' = 0
  /\ encEdges' = [encEdges EXCEPT !.forward = 0, !.backward = 0, !.resets = @ + 1]
  /\ encOp' = EncoderCalled("reset", enc, encClock, 0, << >>)
  /\ UNCHANGED << encClock, ctrlVars, timerVars, calcVars, serVars >>

\* polling(millis()) with the level read from the pin, and a callback that
\* touches nothing
EncPolling ==
  /\ \E level \in {0, 1} :
       LET dPulse == EncoderDPulse(enc, level)
           e1 == EncoderPolling(enc, level, encClock)
       IN /\ dPulse # 0 => encEdges.all < MaxPulses
          /\ enc' = e1
          /\ encHist' = IF dPulse # 0
                        THEN Append(encHist, [t |-> encClock, p |-> e1.pulses])
                        ELSE encHist
          /\ encCleared' = IF dPulse = 0 /\ U32(encClock - enc.prevTime) > STOP_TIME
                           THEN Len(encHist) ELSE encCleared
          /\ encEdges' = [encEdges EXCEPT
                            !.forward = IF dPulse > 0 THEN @ + 1 ELSE @,
                            !.backward = IF dPulse < 0 THEN @ + 1 ELSE @,
                            !.all = IF dPulse # 0 THEN @ + 1 ELSE @]
          /\ encOp' = EncoderCalled("polling", enc, encClock, level,
                                    IF dPulse # 0
                                    THEN << EncoderOnSampleArgs(dPulse, encClock) >>
                                    ELSE << >>)
  /\ UNCHANGED << encClock, ctrlVars, timerVars, calcVars, serVars >>

EncoderNext == EncTick \/ EncSetDirection \/ EncReset \/ EncPolling

EncoderSpec == EncoderInit /\ [][EncoderNext]_vars

(* ----------------------- the functions on their own -------------------- *)

\* angles on both sides of every quarter turn, up to MaxQuarters of them
Angles ==
  {k * (PI \div 2) + e : k \in (-MaxQuarters)..MaxQuarters, e \in {-1, 0, 1}}

NormalRadInputs == {[f |-> "normalRad", rad |-> a] : a \in Angles}

\* headings a quarter of a quarter turn apart, and the two next to the ends
\* of the range
Headings ==
  {k * (PI \div 12) : k \in -12..11} \cup {PI - 100, 100 - PI}

\* headings one pulse and two pulses short of a half turn
HeadingsNearHalfTurn ==
  {PI - 2 * ANGLE_PER_PULSE, PI - ANGLE_PER_PULSE,
   ANGLE_PER_PULSE - PI, 2 * ANGLE_PER_PULSE - PI}

\* a pose, and the deltas polling() has read from the two wheels
UpdateInputs ==
  {[f |-> "update", angle |-> a, x |-> x, y |-> y, dl |-> d[1], dr |-> d[2]] :
     a \in Headings \cup HeadingsNearHalfTurn, x \in {0, 3 * ONE}, y \in {0, -2 * ONE},
     d \in ({-1, 0, 1} \X {-1, 0, 1}) \ {<< 0, 0 >>}}

\* the controller after begin() and reset(), its odometry holding the pose
\* and the deltas of the input i
PoseState(i) ==
  [MotionSensorReset(Begin(Constructed(0, 0, 0))) EXCEPT
     !.sensors = [angle |-> i.angle, xPulses |-> i.x, yPulses |-> i.y,
                  dl |-> i.dl, dr |-> i.dr]]

\* calibration tables with increasing x: the identity, a saturating curve,
\* and the two begin() sets
CorrectionTables ==
  { << << -ONE, -(ONE \div 2), 0, ONE \div 2, ONE >>,
       << -ONE, -(ONE \div 2), 0, ONE \div 2, ONE >> >>,
    << << -ONE, -(ONE \div 2), 0, ONE \div 2, ONE >>,
       << -ONE, -ONE, 0, ONE, ONE >> >>,
    << leftXCorrection, leftYCorrection >>,
    << rightXCorrection, rightYCorrection >> }

\* the control points of the tables, and values inside each of their segments
FuncArguments ==
  UNION {{t[1][i] : i \in 1..NO_POINTS} : t \in CorrectionTables}
    \cup {-(3 * ONE) \div 4, -(ONE \div 4), -100, 100, ONE \div 4,
          (37 * ONE) \div 100, (3 * ONE) \div 4}

FuncInputs ==
  {[f |-> "func", xx |-> t[1], yy |-> t[2], x |-> x] :
     t \in CorrectionTables, x \in FuncArguments}

\* pulse rates the sensors' filters may hold, in 1/MILLI pulses per second:
\* backwards, none, half of MAX_PPS and three times MAX_PPS
Rates == {-2 * MAX_PPS * MILLI, 0, (MAX_PPS * MILLI) \div 2, 3 * MAX_PPS * MILLI}

\* a heading, a target and the two measured rates
HandleMotionInputs ==
  {[f |-> "handleMotion", dir |-> dir, toDir |-> toDir, speed |-> speed,
    lpps |-> lpps, rpps |-> rpps] :
     dir \in Headings, toDir \in {0, PI \div 2, -PI},
     speed \in {-ONE, -(ONE \div 2), 0, ONE \div 2, ONE, 2 * ONE},
     lpps \in Rates, rpps \in Rates}

\* the two commands, the two measured rates, and the directions the two
\* sensors were left in
PowerInputs ==
  {[f |-> "power", left |-> left, right |-> right, lpps |-> lpps, rpps |-> rpps,
    lforward |-> lforward, rforward |-> rforward] :
     left \in {-ONE, -(ONE \div 2), 0, ONE \div 4, ONE},
     right \in {-ONE, -(ONE \div 2), 0, ONE \div 4, ONE},
     lpps \in Rates, rpps \in Rates,
     lforward \in BOOLEAN, rforward \in BOOLEAN}

\* the controller after begin() and reset(), with the rates of the input i
\* in the sensors' filters, MOTOR_CHECK_INTERVAL later
RatesState(i) ==
  [MotionSensorReset(Begin(Constructed(0, 0, 0))) EXCEPT
     !.clock = MOTOR_CHECK_INTERVAL,
     !.leftSensor.filter.value = i.lpps,
     !.rightSensor.filter.value = i.rpps]

\* that controller Moving, with the heading and the target of the input i
MovingState(i) ==
  [RatesState(i) EXCEPT
     !.ctrl.halt = FALSE, !.ctrl.direction = i.toDir, !.ctrl.speed = i.speed,
     !.sensors.angle = i.dir]

\* that controller with the sensors' directions of the input i
DirectedState(i) ==
  [RatesState(i) EXCEPT
     !.leftSensor.forward = i.lforward, !.rightSensor.forward = i.rforward]

\* what a call leaves in the controller S: the commands, the powers given to
\* the motors, the pins and the sensors' directions
Outputs(S) ==
  [left |-> S.ctrl.left, right |-> S.ctrl.right,
   leftPwr |-> S.leftMotor.pwr, rightPwr |-> S.rightMotor.pwr,
   leftMotor |-> S.leftMotor, rightMotor |-> S.rightMotor,
   leftForward |-> S.leftSensor.forward, rightForward |-> S.rightSensor.forward,
   ran |-> \E k \in 1..Len(S.trace) : S.trace[k].e = "power"]

\* tables whose x are not increasing: the first two points swapped, the last
\* two points swapped, and the last two at the same x
UnorderedTables ==
  { << << -(ONE \div 2), -ONE, 0, ONE \div 2, ONE >>,
       << -ONE, -(ONE \div 2), 0, ONE \div 2, ONE >> >>,
    << << -ONE, -(ONE \div 2), 0, ONE, ONE \div 2 >>,
       << -ONE, -(ONE \div 2), 0, ONE \div 2, ONE >> >>,
    << << -ONE, -(ONE \div 2), 0, ONE, ONE >>,
       << -ONE, -(ONE \div 2), 0, ONE \div 2, ONE >> >> }

\* the table a motor has, the table given to setCorrection() and the
\* argument of the func() that follows
SetCorrectionInputs ==
  {[f |-> "setCorrection", old |-> old, new |-> new, x |-> x] :
     old \in CorrectionTables, new \in CorrectionTables \cup UnorderedTables,
     x \in FuncArguments}

\* the terms added to a Fuzzy, as << value, weight >>, and whether reset()
\* is called after them
FuzzyTerms == {-ONE, ONE \div 2} \X {0, ONE \div 2, ONE}

DefuzzyInputs ==
  {[f |-> "defuzzy", terms |-> terms, reset |-> reset] :
     terms \in {<< >>} \cup {<< a >> : a \in FuzzyTerms}
                \cup {<< a, b >> : a \in FuzzyTerms, b \in FuzzyTerms},
     reset \in BOOLEAN}

RECURSIVE FuzzyAddAll(_, _)
\* add() of each of the terms in turn
FuzzyAddAll(f, terms) ==
  IF terms = << >> THEN f
  ELSE FuzzyAddAll(FuzzyAdd(f, terms[1][1], terms[1][2]), Tail(terms))

\* the Fuzzy of the input i
FuzzyOf(i) ==
  LET f == FuzzyAddAll(FuzzyNew, i.terms)
  IN IF i.reset THEN FuzzyReset(f) ELSE f

CalcInputs ==
  NormalRadInputs \cup UpdateInputs \cup FuncInputs \cup HandleMotionInputs
    \cup PowerInputs \cup DefuzzyInputs \cup SetCorrectionInputs

CalcInit ==
  /\ CtrlParked
  /\ TimerParked
  /\ EncoderParked
  /\ SerialParked
  /\ calcIn \in CalcInputs
  /\ calcOut = 0
  /\ calcDone = FALSE

\* normalRad(rad)
NormalRadOp ==
  /\ ~calcDone /\ calcIn.f = "normalRad"
  /\ calcOut' = normalRad(calcIn.rad)
  /\ calcDone' = TRUE
  /\ UNCHANGED << calcIn, ctrlVars, timerVars, encVars, serVars >>

\* MotionSensor::update(clockTime)
UpdateOp ==
  /\ ~calcDone /\ calcIn.f = "update"
  /\ calcOut' = MotionSensorUpdate(PoseState(calcIn), 0).sensors
  /\ calcDone' = TRUE
  /\ UNCHANGED << calcIn, ctrlVars, timerVars, encVars, serVars >>

\* MotorCtrl::func(x) with the table set by setCorrection()
FuncOp ==
  /\ ~calcDone /\ calcIn.f = "func"
  /\ calcOut' = func(calcIn.xx, calcIn.yy, calcIn.x)
  /\ calcDone' = TRUE
  /\ UNCHANGED << calcIn, ctrlVars, timerVars, encVars, serVars >>

\* MotionCtrl::handleMotion(clockTime), with the locals it computed
HandleMotionOp ==
  /\ ~calcDone /\ calcIn.f = "handleMotion"
  /\ LET S == MovingState(calcIn)
     IN calcOut' = [step |-> ControlStep(calcIn.dir, calcIn.toDir, calcIn.speed),
                    out |-> Outputs(HandleMotion(S, S.clock))]
  /\ calcDone' = TRUE
  /\ UNCHANGED << calcIn, ctrlVars, timerVars, encVars, serVars >>

\* MotionCtrl::power(left, right)
PowerOp ==
  /\ ~calcDone /\ calcIn.f = "power"
  /\ calcOut' = Outputs(Power(DirectedState(calcIn), calcIn.left, calcIn.right))
  /\ calcDone' = TRUE
  /\ UNCHANGED << calcIn, ctrlVars, timerVars, encVars, serVars >>

\* Fuzzy::defuzzy() after the add() and reset() calls of the input
DefuzzyOp ==
  /\ ~calcDone /\ calcIn.f = "defuzzy"
  /\ calcOut' = defuzzy(FuzzyOf(calcIn))
  /\ calcDone' = TRUE
  /\ UNCHANGED << calcIn, ctrlVars, timerVars, encVars, serVars >>

\* MotorCtrl::setCorrection(x, y), then the segment the next func() divides
\* by the width of
SetCorrectionOp ==
  /\ ~calcDone /\ calcIn.f = "setCorrection"
  /\ LET table == setCorrection(calcIn.old, calcIn.new[1], calcIn.new[2])
         i == FuncSegment(table[1], calcIn.x)
     IN calcOut' = [table |-> table, width |-> table[1][i + 1] - table[1][i]]
  /\ calcDone' = TRUE
  /\ UNCHANGED << calcIn, ctrlVars, timerVars, encVars, serVars >>

CalcNext ==
  \/ NormalRadOp \/ UpdateOp \/ FuncOp \/ HandleMotionOp \/ PowerOp
  \/ DefuzzyOp \/ SetCorrectionOp

CalcSpec == CalcInit /\ [][CalcNext]_vars

(* ---------------------- an AsyncSerial on its own ----------------------- *)

SerialInit ==
  /\ CtrlParked
  /\ TimerParked
  /\ EncoderParked
  /\ CalcParked
  /\ ser = AsyncSerialNew
  /\ serRx = << >>
  /\ serNewlines = 0
  /\ serOp = SerialCalled("new", ser, << >>, << >>)

\* Serial receives a character
SerReceive ==
  /\ Len(serRx) < MaxRx
  /\ \E c \in SerialChars :
       /\ c = NEWLINE => serNewlines < MaxNewlines
       /\ serRx' = Append(serRx, c)
       /\ serNewlines' = IF c = NEWLINE THEN serNewlines + 1 ELSE serNewlines
  /\ UNCHANGED << ser, serOp, ctrlVars, timerVars, encVars, calcVars >>

\* serialEvent()
SerSerialEvent ==
  /\ \E beyond \in BeyondOutcomes :
       LET R == serialEvent(ser, serRx, beyond)
       IN /\ ser' = R.serial
          /\ serRx' = R.available
          /\ serOp' = SerialCalled("serialEvent", ser, R.writes, << >>)
  /\ UNCHANGED << serNewlines, ctrlVars, timerVars, encVars, calcVars >>

\* polling()
SerPolling ==
  /\ ser' = AsyncSerialPolling(ser)
  /\ serOp' = SerialCalled("polling", ser, << >>, AsyncSerialOnData(ser))
  /\ UNCHANGED << serRx, serNewlines, ctrlVars, timerVars, encVars, calcVars >>

SerialNext == SerReceive \/ SerSerialEvent \/ SerPolling

SerialSpec == SerialInit /\ [][SerialNext]_vars

(* ------------------------------ claims --------------------------------- *)

Halted == ctrl.halt
Moving == ~ctrl.halt

MotorIsOff(m) == m.forw = 0 /\ m.back = 0 /\ m.pwr = 0
MotorsOff == MotorIsOff(leftMotor) /\ MotorIsOff(rightMotor)
TimersStopped == ~stopTimer.running /\ ~checkTimer.running

\* the positions in trace of the events named e
At(e) == {i \in 1..Len(trace) : trace[i].e = e}
Did(e) == At(e) # {}

\* the outputs are the ones power() writes for the commands cmd
OutputsFollow(cmd) ==
  /\ ctrl.left = cmd.left
  /\ ctrl.right = cmd.right
  /\ cmd.left = 0 => leftMotor.pwr = 0
  /\ cmd.right = 0 => rightMotor.pwr = 0
  /\ leftMotor.pwr # 0 =>
       leftMotor = MotorSpeed(leftXCorrection, leftYCorrection,
                              WheelPower(cmd.left, leftSensor.filter.value))
  /\ rightMotor.pwr # 0 =>
       rightMotor = MotorSpeed(rightXCorrection, rightYCorrection,
                               WheelPower(cmd.right, rightSensor.filter.value))

\* C1: once Moving, with the loop polling and no move() refreshing the
\* watchdog for ever, the controller becomes Halted with both motor outputs
\* 0 and both timers stopped.
C1_WatchdogHalts == Moving ~> (Halted /\ MotorsOff /\ TimersStopped)

\* the watchdog has fired in a polling() and halted the controller
C1_Witness == op.name = "polling" /\ Did("stopTimer") /\ Halted /\ ~op.halt

\* C2: at every return from begin(), halt(), move() or polling(), a Halted
\* controller has both motor powers (and both pairs of pins) at 0.
C2_HaltedMotorsOff == Halted => MotorsOff /\ ctrl.left = 0 /\ ctrl.right = 0

\* a polling() in which an encoder edge changed the pose and the watchdog fired
C2_Witness ==
  op.name = "polling" /\ Did("update") /\ Did("step") /\ Did("stopTimer") /\ Halted

\* C3: a move() made while Moving puts the watchdog deadline at the time of
\* that move + MOTOR_SAFE_INTERVAL, and the watchdog fires in no polling()
\* made less than MOTOR_SAFE_INTERVAL after the last move().
C3_WatchdogRefresh ==
  /\ (op.name = "move" /\ ~op.halt) =>
       stopTimer.running /\ stopTimer.next = U32(op.clock + MOTOR_SAFE_INTERVAL)
  /\ (op.name = "polling" /\ Did("stopTimer")) =>
       clock - hist.lastMove >= MOTOR_SAFE_INTERVAL

\* a polling() past the deadline of the move() that left Halted, still Moving
\* because a later move() refreshed the watchdog
C3_Witness ==
  /\ op.name = "polling" /\ Moving /\ ~op.halt
  /\ hist.lastMove > hist.moveStart
  /\ clock >= hist.moveStart + MOTOR_SAFE_INTERVAL

\* C4: halt(), from any state, leaves targetSpeed 0, the controller Halted,
\* both motor outputs 0 and both timers stopped.
C4_HaltEffect ==
  op.name = "halt" => ctrl.speed = 0 /\ Halted /\ MotorsOff /\ TimersStopped

\* halt() called while Moving with a check-timer fire behind it
C4_Witness == op.name = "halt" /\ ~op.halt /\ Halted /\ checkTimer.counter > 0

\* C5: halt() twice in a row gives the state halt() once gives.
C5_HaltIdempotent ==
  [Halt(Halt(Cur)) EXCEPT !.trace = << >>] = [Halt(Cur) EXCEPT !.trace = << >>]

\* a Moving state with a motor running, which halt() changes
C5_Witness == Moving /\ leftMotor.pwr # 0 /\ checkTimer.running

\* C6: move(direction, speed) while Halted sets the target, makes the
\* controller Moving and starts the one-shot watchdog for now +
\* MOTOR_SAFE_INTERVAL and the continuous check timer for now +
\* MOTOR_CHECK_INTERVAL.
C6_MoveFromHalted ==
  (op.name = "move" /\ op.halt) =>
    /\ ctrl.direction = op.arg[1] /\ ctrl.speed = op.arg[2]
    /\ Moving
    /\ stopTimer.running /\ ~stopTimer.continuous /\ stopTimer.counter = 0
    /\ stopTimer.next = U32(op.clock + MOTOR_SAFE_INTERVAL)
    /\ checkTimer.running /\ checkTimer.continuous /\ checkTimer.counter = 0
    /\ checkTimer.next = U32(op.clock + MOTOR_CHECK_INTERVAL)

\* a move() made while Halted, later than at clock 0
C6_Witness == op.name = "move" /\ op.halt /\ op.clock > 0

\* C7: every move() made while Moving runs the control step before it
\* returns: the outputs are the control law's for the new target.
C7_MoveRunsStep ==
  (op.name = "move" /\ ~op.halt) =>
    /\ Did("step")
    /\ OutputsFollow(ControlLaw(sensors.angle, op.arg[1], op.arg[2]))

\* C8: in one polling() the pose update and its control step come before the
\* watchdog, the watchdog before the check timer, and a control step run by
\* the check timer reads the heading the edges of that call have given.
C8_PollingOrder ==
  op.name = "polling" =>
    /\ \A i \in At("update"), j \in At("stopTimer") \cup At("checkTimer") : i < j
    /\ \A i \in At("update") : i < Len(trace) /\ trace[i + 1].e \in {"step", "skip"}
                               /\ trace[i].a = sensors.angle
    /\ Did("stopTimer") => ~Did("checkTimer")
    /\ \A j \in At("checkTimer"), k \in At("step") : k > j => trace[k].a = sensors.angle

\* a polling() with an edge, a pose update and a control step of the check timer
C8_Witness ==
  /\ op.name = "polling" /\ Did("update") /\ Did("checkTimer")
  /\ \E j \in At("checkTimer"), k \in At("step") : k > j
  /\ sensors.angle # 0

\* C9: while Moving, every fire of the check timer runs the control step and
\* writes both motor outputs from the heading and the target.
C9_CheckRunsStep ==
  (op.name = "polling" /\ Did("checkTimer")) =>
    /\ \A j \in At("checkTimer") : j < Len(trace) /\ trace[j + 1].e = "step"
    /\ OutputsFollow(ControlLaw(sensors.angle, ctrl.direction, ctrl.speed))

\* C10: a continuous timer started at t0 and neither stopped nor restarted
\* has, after N firing polls, counter = N and its deadline at
\* t0 + interval + N * interval, whenever the polls were made.
C10_DriftFree ==
  (tm.running /\ tm.continuous /\ tmPlain) =>
    /\ tm.counter = tmFires
    /\ tm.next = U32(tmStart + tm.interval + tmFires * tm.interval)

\* two fires, the last one in a polling() made later than its deadline
C10_Witness ==
  /\ tm.running /\ tm.continuous /\ tmPlain
  /\ tmFires >= 2
  /\ tm.next <= tmClock

\* C11: a one-shot timer calls back once after start(), in the first
\* polling(now) with now >= its deadline, and is stopped from then on;
\* polling() of a stopped timer calls nothing back and changes nothing.
C11_OneShot ==
  /\ ~tm.continuous => tmFires <= 1 /\ (tmFires = 1 => ~tm.running)
  /\ (~tm.continuous /\ tmPlain /\ tmFires = 0) => tm.running
  /\ (tmOp.name = "polling" /\ ~tmOp.pre.continuous) =>
       IF tmOp.pre.running /\ tmOp.clock >= tmOp.pre.next
       THEN /\ Len(tmOp.calls) = 1
            /\ ~tm.running
            /\ tm.counter = U32(tmOp.pre.counter + 1)
       ELSE tmOp.calls = << >> /\ tm = tmOp.pre
  /\ (tmOp.name = "polling" /\ ~tmOp.pre.running) =>
       tmOp.calls = << >> /\ tm = tmOp.pre

\* a polling() of a one-shot timer that has fired and is stopped
C11_Witness ==
  /\ tmOp.name = "polling" /\ ~tm.continuous /\ ~tmOp.pre.running
  /\ tmFires = 1 /\ tmSpent > tm.interval

\* the samples recorded since the last reset() or clearing by polling()
EncoderLive == SubSeq(encHist, encCleared + 1, Len(encHist))

\* what frequency() is to return when the samples recorded are h
FrequencyOf(h) ==
  IF Len(h) < SPEED_BUFFER_SIZE THEN 0
  ELSE LET newest == h[Len(h)]
           oldest == h[Len(h) - SPEED_BUFFER_SIZE + 1]
       IN Div((newest.p - oldest.p) * 1000 * MILLI, U32(newest.t - oldest.t))

\* C12 as stated: frequency() is 0 while fewer than SPEED_BUFFER_SIZE samples
\* have been recorded since the last reset(), and from then on the pulses
\* between the newest sample and the SPEED_BUFFER_SIZE-th most recent one,
\* times 1000, over the time between them.
C12_FrequencySinceReset == EncoderFrequency(enc) = FrequencyOf(encHist)

\* C12: frequency() is 0 while fewer than SPEED_BUFFER_SIZE samples have been
\* recorded since the last reset() or the last clearing of the buffer by
\* polling(), and from then on the pulses between the newest sample and the
\* SPEED_BUFFER_SIZE-th most recent one, times 1000, over the time between
\* them.
C12_Frequency == EncoderFrequency(enc) = FrequencyOf(EncoderLive)

\* more samples than the buffer holds, in both directions, and a rate that
\* is a number other than 0
C12_Witness ==
  /\ Len(EncoderLive) > SPEED_BUFFER_SIZE
  /\ encEdges.backward > 0 /\ encEdges.forward > 0
  /\ EncoderFrequency(enc) \notin {0, NaN}

\* what C13 says of a polling() that reads a changed level, and of the count
C13_EdgeCounted ==
  /\ (encOp.name = "polling" /\ encOp.level # encOp.pre.pulse) =>
       LET delta == IF encOp.pre.forward THEN 1 ELSE -1
       IN /\ enc.pulses = encOp.pre.pulses + delta
          /\ encOp.calls = << [delta |-> delta, t |-> encOp.clock] >>
          /\ enc.timestamp[encOp.pre.index] = encOp.clock
          /\ enc.pulsesBuf[encOp.pre.index] = enc.pulses
  /\ enc.pulses = encEdges.forward - encEdges.backward

\* C13 as stated: a polling() that reads a changed level counts one delta,
\* +1 forward and -1 backward, and calls _onSample once with it and the
\* time; a polling() that reads the same level changes neither the count nor
\* the buffer and calls nothing; the count is forward edges less backward
\* edges since the last reset().
C13_EdgeCountingBufferKept ==
  /\ C13_EdgeCounted
  /\ (encOp.name = "polling" /\ encOp.level = encOp.pre.pulse) =>
       /\ encOp.calls = << >>
       /\ enc.pulses = encOp.pre.pulses
       /\ enc.timestamp = encOp.pre.timestamp
       /\ enc.pulsesBuf = encOp.pre.pulsesBuf
       /\ enc.index = encOp.pre.index
       /\ enc.noSamples = encOp.pre.noSamples

\* C13: a polling() that reads a changed level counts one delta, +1 forward
\* and -1 backward, and calls _onSample once with it and the time; a
\* polling() that reads the same level changes neither the count nor the
\* samples stored and calls nothing, and it empties the buffer (_index and
\* _noSamples to 0) exactly when more than STOP_TIME has gone by since
\* _prevTime; the count is forward edges less backward edges since the last
\* reset().
C13_EdgeCounting ==
  /\ C13_EdgeCounted
  /\ (encOp.name = "polling" /\ encOp.level = encOp.pre.pulse) =>
       /\ encOp.calls = << >>
       /\ enc.pulses = encOp.pre.pulses
       /\ enc.timestamp = encOp.pre.timestamp
       /\ enc.pulsesBuf = encOp.pre.pulsesBuf
       /\ IF U32(encOp.clock - encOp.pre.prevTime) > STOP_TIME
          THEN enc.index = 0 /\ enc.noSamples = 0
          ELSE enc.index = encOp.pre.index /\ enc.noSamples = encOp.pre.noSamples

\* a backward edge counted after a forward one
C13_Witness ==
  /\ encOp.name = "polling" /\ encOp.calls # << >> /\ ~encOp.pre.forward
  /\ encEdges.forward > 0 /\ encEdges.backward > 0

Returned(f) == calcDone /\ calcIn.f = f

\* what C14 says of every angle: the result differs from the angle by whole
\* turns, and normalRad leaves it as it is
C14_WholeTurns ==
  Returned("normalRad") =>
    /\ (calcOut - calcIn.rad) % (2 * PI) = 0
    /\ normalRad(calcOut) = calcOut

C15_Kinematics ==
  Returned("update") =>
    LET a == calcIn.angle
        ds == ((calcIn.dl + calcIn.dr) * ONE) \div 2
    IN /\ (calcIn.dl = 1 /\ calcIn.dr = 1) =>
            /\ calcOut.angle = a
            /\ calcOut.xPulses = calcIn.x + cosf(a)
            /\ calcOut.yPulses = calcIn.y + sinf(a)
       /\ (calcIn.dl = 1 /\ calcIn.dr = -1) =>
            /\ calcOut.angle = normalRad(a + 2 * ANGLE_PER_PULSE)
            /\ calcOut.xPulses = calcIn.x
            /\ calcOut.yPulses = calcIn.y
       /\ calcOut.xPulses = calcIn.x + Mul(cosf(a), ds)
       /\ calcOut.yPulses = calcIn.y + Mul(sinf(a), ds)
       /\ a = 0 => cosf(a) = ONE /\ sinf(a) = 0
       /\ a = PI \div 2 => cosf(a) = 0 /\ sinf(a) = ONE
       /\ Abs(cosf(a) * cosf(a) + sinf(a) * sinf(a) - ONE * ONE) <= (ONE * ONE) \div 50

\* a turn on the spot that takes the heading past PI, and a step along a
\* heading that is not an axis
C15_Witness ==
  /\ Returned("update")
  /\ \/ calcIn.dl = 1 /\ calcIn.dr = -1 /\ calcOut.angle < calcIn.angle
     \/ /\ calcIn.dl = 1 /\ calcIn.dr = 1
        /\ calcOut.xPulses # calcIn.x /\ calcOut.yPulses # calcIn.y

\* C16: with a table of increasing x, func() at each of the five control
\* points x_i returns y_i.
C16_ControlPoints ==
  Returned("func") =>
    \A i \in 1..NO_POINTS : calcIn.x = calcIn.xx[i] => calcOut = calcIn.yy[i]

\* the segment with x_i <= x < x_(i+1), the last one when there is none
SegmentOf(xx, x) ==
  IF \E i \in 1..(NO_POINTS - 1) : xx[i] <= x /\ x < xx[i + 1]
  THEN CHOOSE i \in 1..(NO_POINTS - 1) : xx[i] <= x /\ x < xx[i + 1]
  ELSE NO_POINTS - 1

\* the straight line through the ends of segment i, clamped to [-1, 1]
Interpolated(xx, yy, i, x) ==
  Min(Max(-ONE, yy[i] + Quot((x - xx[i]) * (yy[i + 1] - yy[i]), xx[i + 1] - xx[i])),
      ONE)

\* C17: for x in [-1, 1] func() returns the clamped interpolation on the
\* segment with x_i <= x < x_(i+1), the last one when there is none, of the
\* four segments; 0.5 for 0.25 on the saturating table, 0.37 for 0.37 on
\* the identity.
C17_Interpolation ==
  Returned("func") =>
    calcOut = Interpolated(calcIn.xx, calcIn.yy, SegmentOf(calcIn.xx, calcIn.x), calcIn.x)

\* C18: whatever the heading, the target and the measured rates, a control
\* step leaves both commands in [-1, 1], in the ratio of the sums they were
\* scaled from, and gives each motor a power in [-1, 1].
C18_Bounded ==
  Returned("handleMotion") =>
    LET step == calcOut.step
        out == calcOut.out
    IN /\ out.ran
       /\ Abs(out.left) <= ONE /\ Abs(out.right) <= ONE
       /\ Abs(out.left * step.rightSum - out.right * step.leftSum)
            <= Abs(step.leftSum) + Abs(step.rightSum)
       /\ out.left * step.leftSum >= 0 /\ out.right * step.rightSum >= 0
       /\ Abs(out.leftPwr) <= ONE /\ Abs(out.rightPwr) <= ONE

\* a target speed in [-1, 1], two commands of different size, and a power
\* that the feedback alone would have taken past 1
C18_Witness ==
  /\ Returned("handleMotion") /\ Abs(calcIn.speed) <= ONE
  /\ calcOut.out.left > calcOut.out.right /\ calcOut.out.right > 0
  /\ calcIn.lpps = 0 /\ calcOut.out.leftPwr = ONE /\ calcOut.out.left < ONE

\* the power of one wheel, as C19 gives it
PowerOf(cmd, pps) ==
  IF cmd = 0 THEN 0
  ELSE Min(Max(cmd + (cmd - Quot(pps * (ONE \div MILLI), MAX_PPS)) * FEEDBACK_GAIN,
               -ONE), ONE)

\* C19: for each wheel on its own, a command of 0 gives its motor the power
\* 0 and both pins 0 whatever rate is measured; any other command gives it
\* cmd + (cmd - measured / MAX_PPS) * FEEDBACK_GAIN held to [-1, 1].
C19_ZeroCommand ==
  Returned("power") =>
    /\ calcOut.left = calcIn.left /\ calcOut.right = calcIn.right
    /\ calcOut.leftPwr = PowerOf(calcIn.left, calcIn.lpps)
    /\ calcOut.rightPwr = PowerOf(calcIn.right, calcIn.rpps)
    /\ calcIn.left = 0 => MotorIsOff(calcOut.leftMotor)
    /\ calcIn.right = 0 => MotorIsOff(calcOut.rightMotor)

\* a command of 0 on a wheel that is measured turning, next to a wheel whose
\* power the feedback has changed
C19_Witness ==
  /\ Returned("power")
  /\ calcIn.left = 0 /\ calcIn.lpps # 0 /\ MotorIsOff(calcOut.leftMotor)
  /\ calcIn.right # 0 /\ calcOut.rightPwr \notin {-ONE, ONE, calcIn.right}

\* C20: Moving with target (0, 1) and heading PI/2, the control step has one
\* of isCw, isCcw at 1 and the other at 0, isLin and linSpeed at 0, and
\* commands of size 1 and opposite sign.
C20_Perpendicular ==
  (Returned("handleMotion") /\ calcIn.dir = PI \div 2 /\ calcIn.toDir = 0
     /\ calcIn.speed = ONE) =>
    LET step == calcOut.step
        out == calcOut.out
    IN /\ {step.isCw, step.isCcw} = {0, ONE}
       /\ step.isLin = 0 /\ step.linSpeed = 0
       /\ out.ran
       /\ out.left = -out.right
       /\ Abs(out.left) = ONE /\ Abs(out.right) = ONE

\* that step, turning the robot counter-clockwise with both motors driven
C20_Witness ==
  /\ Returned("handleMotion") /\ calcIn.dir = PI \div 2 /\ calcIn.toDir = 0
  /\ calcIn.speed = ONE
  /\ calcOut.step.isCcw = ONE /\ calcOut.out.left = -ONE
  /\ calcOut.out.leftMotor.back > 0 /\ calcOut.out.rightMotor.forw > 0

\* the direction a sensor is to have after a power pwr, having been forward
\* or not before
DirectionFollows(pwr, before, after) ==
  /\ pwr > 0 => after
  /\ pwr < 0 => ~after
  /\ pwr = 0 => after = before

\* C21: after power(), called on its own or by a control step, each sensor
\* is forward if the power given to its motor is above 0, backward if it is
\* below 0, and as it was if the power is 0.
C21_DirectionFollowsPower ==
  /\ Returned("power") =>
       /\ DirectionFollows(calcOut.leftPwr, calcIn.lforward, calcOut.leftForward)
       /\ DirectionFollows(calcOut.rightPwr, calcIn.rforward, calcOut.rightForward)
  /\ Returned("handleMotion") =>
       /\ DirectionFollows(calcOut.out.leftPwr, TRUE, calcOut.out.leftForward)
       /\ DirectionFollows(calcOut.out.rightPwr, TRUE, calcOut.out.rightForward)

\* a backward sensor kept backward by a power of 0, next to a forward one
\* turned backward
C21_Witness ==
  /\ Returned("power")
  /\ calcOut.leftPwr = 0 /\ ~calcIn.lforward /\ ~calcOut.leftForward
  /\ calcOut.rightPwr < 0 /\ calcIn.rforward /\ ~calcOut.rightForward

\* C22: defuzzy() on a total weight of zero does not return: it fails with
\* a DivisionByZero error.
C22_ZeroWeightFails ==
  ~(Returned("defuzzy") /\ FuzzyOf(calcIn).scale = 0)

\* what defuzzy() does on a total weight of zero: it returns, and what it
\* returns is the quotient by zero, no number
C22_ZeroWeightReturnsNaN ==
  Returned("defuzzy") /\ FuzzyOf(calcIn).scale = 0 => calcOut = NaN

\* defuzzy() returned after two terms of weight zero
C22_Witness ==
  /\ Returned("defuzzy") /\ Len(calcIn.terms) = 2 /\ ~calcIn.reset
  /\ FuzzyOf(calcIn).scale = 0
  /\ calcOut = NaN

StrictlyIncreasing(xx) == \A i \in 1..(NO_POINTS - 1) : xx[i] < xx[i + 1]

\* C23: setCorrection() with x not strictly increasing leaves the table the
\* motor had, so that func() never divides by a segment width of 0 or less.
C23_UnorderedRejected ==
  Returned("setCorrection") /\ ~StrictlyIncreasing(calcIn.new[1]) =>
    /\ calcOut.table = calcIn.old
    /\ calcOut.width > 0

\* what setCorrection() does: the table given is the motor's table, ordered
\* or not
C23_TableInstalled ==
  Returned("setCorrection") => calcOut.table = calcIn.new

\* a table with two points at the same x is installed and func() divides by
\* the zero width of its last segment
C23_Witness ==
  /\ Returned("setCorrection") /\ ~StrictlyIncreasing(calcIn.new[1])
  /\ calcOut.table = calcIn.new /\ calcOut.table # calcIn.old
  /\ calcOut.width = 0

\* the last call was a polling() that called _onNext
Fired == tmOp.name \in {"polling", "pollingStart"} /\ tmOp.calls # << >>

\* C24: _onNext is called after the timer's own state change: it finds a
\* one-shot timer stopped and a continuous one with its deadline advanced;
\* a start() made by the callback is in effect when polling() returns, the
\* timer running with the deadline that start() set.
C24_Reentrancy ==
  /\ Fired =>
       LET seen == tmOp.calls[1].timer
       IN /\ seen.counter = U32(tmOp.pre.counter + 1)
          /\ ~tmOp.pre.continuous => ~seen.running
          /\ tmOp.pre.continuous =>
               seen.running /\ seen.next = U32(tmOp.pre.next + tmOp.pre.interval)
  /\ (Fired /\ tmOp.name = "pollingStart") =>
       /\ tm.running
       /\ \E d \in CallbackDelays : tmStart = U32(tmOp.clock + d)
       /\ tm.next = U32(tmStart + tm.interval)
       /\ tm.counter = 0

\* a one-shot timer started again by its callback, one millisecond after
\* the clock value polling() was given
C24_Witness ==
  /\ Fired /\ tmOp.name = "pollingStart" /\ ~tm.continuous
  /\ tmStart = U32(tmOp.clock + 1) /\ tmClock = tmStart
  /\ ~tmOp.calls[1].timer.running /\ tm.running

\* C25 as stated: the k-th firing polling() after start() hands _onNext the
\* counter k, the value _counter has by then.
C25_UpdatedCounter ==
  (Fired /\ tmOp.name = "polling") =>
    /\ tmOp.calls[1].counter = tmOp.calls[1].timer.counter
    /\ tmOp.pre.continuous /\ tmPlain => tmOp.calls[1].counter = tmFires

\* C25: the k-th firing polling() after start() hands _onNext the counter
\* k - 1, the value _counter had before the increment, while _counter is k
\* by the time _onNext is called.
C25_Counter ==
  (Fired /\ tmOp.name = "polling") =>
    /\ tmOp.calls[1].counter = tmOp.pre.counter
    /\ tmOp.calls[1].timer.counter = U32(tmOp.calls[1].counter + 1)
    /\ tmPlain => /\ tmOp.calls[1].counter = tmFires - 1
                  /\ tmOp.calls[1].timer.counter = tmFires

\* the third fire of a continuous timer since start(): _onNext is given 2
C25_Witness ==
  /\ Fired /\ tmOp.name = "polling" /\ tm.continuous /\ tmPlain
  /\ tmFires = 3 /\ tmOp.calls[1].counter = 2 /\ tm.counter = 3

\* C26: one polling() calls _onNext at most once, and does so whenever the
\* timer is running and its deadline is not after the clock; a continuous
\* timer polled an interval or more late is left with its deadline not after
\* the clock, so that the next polling() fires too; started and then only
\* polled, it has fired once for each interval gone by as soon as its
\* deadline is after the clock, and fewer times until then.
C26_LateTicks ==
  /\ tmOp.name \in {"polling", "pollingStart"} =>
       /\ Len(tmOp.calls) <= 1
       /\ Len(tmOp.calls) = 1 <=> TimerExpired(tmOp.pre, tmOp.clock)
  /\ (Fired /\ tmOp.pre.continuous
         /\ tmOp.clock >= tmOp.pre.next + tmOp.pre.interval) =>
       LET after == tmOp.calls[1].timer
       IN /\ after.next = tmOp.pre.next + tmOp.pre.interval
          /\ after.next <= tmOp.clock
          /\ TimerExpired(after, tmOp.clock)
  /\ (tm.running /\ tm.continuous /\ tmPlain /\ tmStart <= tmClock
         /\ tmStart + (tmFires + 1) * tm.interval < ClockModulus) =>
       IF TimerExpired(tm, tmClock)
       THEN tmFires < (tmClock - tmStart) \div tm.interval
       ELSE tmFires = (tmClock - tmStart) \div tm.interval

\* the second fire of a continuous timer, two intervals late: the timer is
\* left with a deadline that has passed
C26_Witness ==
  /\ Fired /\ tmOp.name = "polling" /\ tm.continuous /\ tmPlain
  /\ tmOp.pre.counter = 1
  /\ tmOp.clock >= tmOp.pre.next + 2 * tm.interval
  /\ tmClock = tmOp.clock /\ TimerExpired(tm, tmClock)

\* C27: in a control step, whatever the turn and the speed, the weights
\* added before each of the two defuzzy() calls sum to 1, so that neither
\* divides by zero.
C27_WeightsSumToOne ==
  Returned("handleMotion") =>
    LET step == calcOut.step
    IN /\ step.cwScale = ONE /\ step.linScale = ONE
       /\ step.isCw + step.isCcw + (ONE - Max(step.isCw, step.isCcw)) = ONE
       /\ step.cwSpeed # NaN /\ step.linSpeed # NaN

\* a turn of PI / 12, for which isCw and isLin are both strictly between 0
\* and 1
C27_Witness ==
  /\ Returned("handleMotion") /\ calcOut.step.turn = PI \div 12
  /\ 0 < calcOut.step.isCw /\ calcOut.step.isCw < ONE
  /\ 0 < calcOut.step.isLin /\ calcOut.step.isLin < ONE
  /\ calcOut.step.cwScale = ONE /\ calcOut.step.linScale = ONE

\* the delta a sensor posts in a polling() that finds its pin at the level
\* pulse
DeltaOf(sensor, pulse) ==
  IF pulse # sensor.pulse THEN (IF sensor.forward THEN 1 ELSE -1) ELSE 0

\* C28: a polling() runs update() at most once, and does so exactly when a
\* wheel has a nonzero delta in that call; _dl and _dr are the deltas of
\* that call and no others; the one update() moves the pose by both deltas
\* together, and without an edge x, y and the heading stay as they were;
\* the pose-changed callback comes right after the pose is updated and
\* reads the new heading.
C28_UpdateOncePerTick ==
  [][clock' # clock =>
       LET dl == DeltaOf(leftSensor, leftSensor'.pulse)
           dr == DeltaOf(rightSensor, rightSensor'.pulse)
           updates == {i \in 1..Len(trace') : trace'[i].e = "update"}
           ds == ((dl + dr) * ONE) \div 2
       IN /\ Cardinality(updates) <= 1
          /\ updates # {} <=> (dl # 0 \/ dr # 0)
          /\ sensors'.dl = dl /\ sensors'.dr = dr
          /\ (dl = 0 /\ dr = 0) =>
               /\ sensors'.xPulses = sensors.xPulses
               /\ sensors'.yPulses = sensors.yPulses
               /\ sensors'.angle = sensors.angle
          /\ sensors'.xPulses = sensors.xPulses + Mul(cosf(sensors.angle), ds)
          /\ sensors'.yPulses = sensors.yPulses + Mul(sinf(sensors.angle), ds)
          /\ sensors'.angle = normalRad(sensors.angle + (dl - dr) * ANGLE_PER_PULSE)
          /\ \A i \in updates :
               /\ trace'[i].a = sensors'.angle
               /\ i < Len(trace') /\ trace'[i + 1].e \in {"step", "skip"}
               /\ trace'[i + 1].e = "step" => trace'[i + 1].a = sensors'.angle
  ]_vars

\* a polling() in which both wheels had an edge, the right one backwards:
\* one update() that turned the heading and left the position
C28_Witness ==
  /\ op.name = "polling" /\ Cardinality(At("update")) = 1
  /\ sensors.dl = 1 /\ sensors.dr = -1
  /\ sensors.angle = 2 * ANGLE_PER_PULSE
  /\ sensors.xPulses = 0 /\ sensors.yPulses = 0

SlotOf(e, k) == (e.index + SPEED_BUFFER_SIZE - k) % SPEED_BUFFER_SIZE

\* slot i of e holds the sample s
Holds(e, i, s) == e.timestamp[i] = s.t /\ e.pulsesBuf[i] = s.p

\* C30: after reset() and any calls of polling(), _index is in 0 .. N - 1
\* and _noSamples in 0 .. N, the samples buffered are the last _noSamples
\* recorded, the k-th newest in slot (_index + N - k) mod N; so with N
\* samples buffered the slot at _index holds the oldest and the slot at
\* (_index + N - 1) mod N the newest. A sample is recorded in the slot at
\* _index, which held the oldest sample if N were buffered and none
\* otherwise, and the other slots are left alone.
C30_RingBuffer ==
  LET live == EncoderLive
      N == SPEED_BUFFER_SIZE
  IN /\ enc.index \in 0..(N - 1)
     /\ enc.noSamples \in 0..N
     /\ enc.noSamples = Min(N, Len(live))
     /\ enc.noSamples < N => enc.index = enc.noSamples
     /\ \A k \in 1..enc.noSamples :
          Holds(enc, SlotOf(enc, k), live[Len(live) - k + 1])
     /\ enc.noSamples = N =>
          /\ Holds(enc, enc.index, live[Len(live) - N + 1])
          /\ Holds(enc, EncoderLast(enc), live[Len(live)])
     /\ (encOp.name = "polling" /\ encOp.calls # << >>) =>
          LET pre == encOp.pre
          IN /\ Holds(enc, pre.index, live[Len(live)])
             /\ enc.index = (pre.index + 1) % N
             /\ \A i \in 0..(N - 1) :
                  i # pre.index =>
                    /\ enc.timestamp[i] = pre.timestamp[i]
                    /\ enc.pulsesBuf[i] = pre.pulsesBuf[i]
             /\ IF pre.noSamples = N
                THEN Holds(pre, pre.index, live[Len(live) - N])
                ELSE pre.index = pre.noSamples /\ enc.noSamples = pre.noSamples + 1

\* a fifth sample recorded on a full buffer: it took the slot of the first
C30_Witness ==
  /\ encOp.name = "polling" /\ encOp.calls # << >>
  /\ encOp.pre.noSamples = SPEED_BUFFER_SIZE /\ encOp.pre.index = 0
  /\ Len(EncoderLive) = SPEED_BUFFER_SIZE + 1
  /\ enc.index = 1 /\ enc.noSamples = SPEED_BUFFER_SIZE

\* C31: at every return from begin(), halt(), move() or polling(), the
\* controller is Halted exactly when the watchdog and the check timer are
\* both stopped, and Moving exactly when both are running.
C31_ModeAndTimers ==
  /\ Halted <=> (~stopTimer.running /\ ~checkTimer.running)
  /\ Moving <=> (stopTimer.running /\ checkTimer.running)

\* a polling() in which the one-shot watchdog fired after the check timer
\* had fired: Halted, with the continuous check timer stopped by halt()
C31_Witness ==
  /\ op.name = "polling" /\ ~op.halt /\ Halted
  /\ stopTimer.counter = 1 /\ checkTimer.counter >= 1
  /\ ~stopTimer.running /\ ~checkTimer.running

SinceSet == U32(tmOp.clock - tmStart)

\* C33: a polling() made less than _interval after the start() or restart()
\* that set the deadline does not call _onNext, also when millis() +
\* _interval is past the range of unsigned long.
C33_NoEarlyFire ==
  (Fired /\ tmOp.name = "polling") => SinceSet >= tmOp.pre.interval

\* what holds of Timer: no early fire while the deadline set is within the
\* range of the clock
C33_NoEarlyFireInRange ==
  (Fired /\ tmOp.name = "polling" /\ tmStart + tmOp.pre.interval < ClockModulus) =>
    SinceSet >= tmOp.pre.interval

\* a timer started 3 ms before the clock wraps, with an interval of 5: its
\* deadline is 2, and the polling() made 1 ms after start() fires
C33_Witness ==
  /\ Fired /\ tmOp.name = "polling" /\ tmOp.pre.interval = 5
  /\ tmStart = ClockModulus - 3 /\ tmOp.pre.next = 2
  /\ tmOp.clock = ClockModulus - 2

\* the last call was a polling() that took the branch emptying the buffer
Cleared ==
  /\ encOp.name = "polling" /\ encOp.level = encOp.pre.pulse
  /\ U32(encOp.clock - encOp.pre.prevTime) > STOP_TIME

\* C34: polling() empties the buffer only when more than STOP_TIME has gone
\* by since the last edge; while edges come less than STOP_TIME apart the
\* buffer is not emptied.
C34_StallOnly ==
  (Cleared /\ encHist # << >>) =>
    U32(encOp.clock - encHist[Len(encHist)].t) > STOP_TIME

\* what polling() goes by: the time since reset() or since it last emptied
\* the buffer, whatever edges there were since
C34_SincePrevTime ==
  (encOp.name = "polling" /\ encOp.level = encOp.pre.pulse) =>
    IF U32(encOp.clock - encOp.pre.prevTime) > STOP_TIME
    THEN enc.noSamples = 0 /\ enc.index = 0 /\ enc.prevTime = encOp.clock
    ELSE enc.noSamples = encOp.pre.noSamples /\ enc.prevTime = encOp.pre.prevTime

\* a full buffer, its newest sample taken in the same millisecond, emptied
\* by a polling() that reads no edge
C34_Witness ==
  /\ Cleared /\ encOp.pre.noSamples = SPEED_BUFFER_SIZE
  /\ encHist[Len(encHist)].t = encOp.clock
  /\ enc.noSamples = 0

\* C35: whenever the buffer is full, its newest timestamp is after its
\* oldest, so that frequency() does not divide by zero.
C35_NoZeroSpan ==
  enc.noSamples = SPEED_BUFFER_SIZE =>
    /\ enc.timestamp[EncoderLast(enc)] > enc.timestamp[enc.index]
    /\ EncoderFrequency(enc) # NaN

\* what holds of a full buffer: its newest timestamp is not before its
\* oldest, and frequency() is the quotient by zero exactly when they are
\* the same
C35_SpanNotNegative ==
  enc.noSamples = SPEED_BUFFER_SIZE =>
    /\ enc.timestamp[EncoderLast(enc)] >= enc.timestamp[enc.index]
    /\ EncoderFrequency(enc) = NaN <=>
         enc.timestamp[EncoderLast(enc)] = enc.timestamp[enc.index]

\* SPEED_BUFFER_SIZE edges read by polling() calls made in one millisecond,
\* later than at clock 0
C35_Witness ==
  /\ enc.noSamples = SPEED_BUFFER_SIZE
  /\ enc.timestamp[enc.index] > 0
  /\ enc.timestamp[EncoderLast(enc)] = enc.timestamp[enc.index]
  /\ EncoderFrequency(enc) = NaN

\* C36 (as the specification states it): every write serialEvent() makes to
\* the input buffer, of a character or of the terminating NUL, is at an index
\* in 0..BUFFER_SIZE-1
C36_WritesInBounds ==
  \A j \in 1..Len(serOp.writes) : serOp.writes[j].i \in 0..(BUFFER_SIZE - 1)

\* C36 (what the code does): the characters are written at indices in
\* 0..BUFFER_SIZE-1 and the NUL at the index after the last character, which
\* is BUFFER_SIZE when the line has BUFFER_SIZE characters
C36_NulAfterLastChar ==
  \A j \in 1..Len(serOp.writes) :
    LET w == serOp.writes[j]
    IN IF w.c = NUL
       THEN /\ j = Len(serOp.writes)
            /\ w.i = ser.noChars
            /\ w.i \in 1..BUFFER_SIZE
            /\ w.i = BUFFER_SIZE <=> Len(ser.inputString) = BUFFER_SIZE
       ELSE w.i \in 0..(BUFFER_SIZE - 1)

\* a line of BUFFER_SIZE characters without a newline has been completed by
\* serialEvent()
C36_Witness ==
  /\ serOp.name = "serialEvent"
  /\ ser.stringComplete
  /\ ser.noChars = BUFFER_SIZE
  /\ \A j \in 1..BUFFER_SIZE : ser.inputString[j] # NEWLINE
  /\ serOp.writes # << >>
  /\ serOp.writes[Len(serOp.writes)] = SerialWrite(BUFFER_SIZE, NUL)

====
